---- MODULE Spec2Model ----
(***************************************************************************)
(* Intent-understanding core of the dialogue bot                          *)
(* (bot/dialogue-bot-master/dialogue_bot): ranking utilities, entity       *)
(* ambiguity resolution, the dialogue state, the regex rankers and         *)
(* mappers, the NLU pipeline, the DefaultIU orchestration, phrases and     *)
(* phrase patterns, the expression rankers' score aggregation, and the     *)
(* turn of BotEnv.respond with the verification of ambiguous intents.      *)
(*                                                                         *)
(* Scores are fixed-point numbers: the float 1.0 is the integer One.       *)
(* The Python value None is the string "None".                             *)
(***************************************************************************)
EXTENDS Integers, Sequences, FiniteSets, TLC

VARIABLES
    cr_ranking,     \* complete_ranking: argument ranking (list of RankingScore)
    cr_ids,         \* complete_ranking: argument ids
    cr_res,         \* complete_ranking: returned list
    cr_pc,          \* "idle", "call" before the call, "done" after it
    ra_entities,    \* remove_ambiguous_entities: argument entities (list of ExtractedEntity)
    ra_remove_idxs, \* remove_ambiguous_entities: the local remove_idxs (list positions, from 1)
    ra_res,         \* remove_ambiguous_entities: returned list
    ra_pc,          \* "idle", "call" before the call, "done" after it
    ds_contexts,    \* DialogueState._contexts: context name -> TTLContext
    ds_templates,   \* ContextSetAction._context of every ContextSetAction of the bot
    ds_refs,        \* context name -> the template the stored object is, if it is one
    iu_user_input,          \* DefaultIU.run: Some(user_input) of the last run
    iu_matchable_intents,   \* DefaultIU.run: what _determine_matchable_intents returned
    iu_nlu_res,             \* DefaultIU.run: nlu_res, Nothing when no NLU ran
    iu_intent_scores,       \* _score_matchable_intents: intent id -> CustomScore
    iu_result,              \* DefaultIU.run: Some(IUResult returned)
    iu_pc,                  \* "idle", "ready" before a run, "done" after one
    rx_include,             \* RegexExpressionRanker._include_expression_patterns
    rx_exclude,             \* RegexExpressionRanker._exclude_expression_patterns
    rx_utterance,           \* RegexExpressionRanker.run: argument utterance
    rx_intent_filter,       \* RegexExpressionRanker.run: argument intent_filter
    rx_res,                 \* RegexExpressionRanker.run: Some(NLUResult returned)
    rx_pc,                  \* "idle", "new" after construction, "ready" after init, "done" after run
    evm_regex_patterns,     \* EntityValueMapper._regex_patterns: (entity, value, pattern, needs_context)
    evm_entity,             \* EntityValueMapper.run: argument entity (None or an entity id)
    evm_text,               \* EntityValueMapper.run: argument text
    evm_intent_filter,      \* EntityValueMapper.run: argument intent_filter
    evm_res,                \* EntityValueMapper.run: Nothing for None, or Some(dict returned)
    evm_pc,                 \* "idle", "new" after construction, "ready" after init, "done" after run
    pl_elements,            \* PipelineNLU.elements (list of NLUPipelineElement)
    pl_intent_filter,       \* PipelineNLU.run: Some(argument intent_filter)
    pl_expression_filter,   \* PipelineNLU.run: the local expression_filter (list)
    pl_perfect_expression,  \* PipelineNLU.run: the local perfect_expression (None or an id)
    pl_expression_scores,   \* PipelineNLU.run: expression_scores, in insertion order
    pl_confidence_thresholds,\* PipelineNLU.run: the local confidence_thresholds (list)
    pl_entities,            \* PipelineNLU.run: the local entities
    pl_curr_intent_filter,  \* PipelineNLU.run: the local curr_intent_filter
    pl_i,                   \* PipelineNLU.run: position of the loop in elements (from 1)
    pl_calls,               \* the calls of element.nlu.run so far: element, intent filter, result
    pl_res,                 \* PipelineNLU.run: Some(NLUResult returned)
    pl_pc,                  \* "idle", "new", "loop" inside run, "done", "error" after an AssertionError
    pp_pattern,             \* PhrasePattern: the pattern generate_phrases is called on
    pp_max_phrases,         \* generate_phrases: argument max_phrases (None or a number)
    pp_max_entity_values,   \* generate_phrases: argument max_entity_values
    pp_max_value_synonyms,  \* generate_phrases: argument max_value_synonyms
    pp_value_order,         \* iteration order of entity.values, per entity id
    pp_synonym_order,       \* iteration order of value.synonyms, per value id
    pp_res,                 \* list(generate_phrases(...)): the phrases yielded
    pp_pc,                  \* "idle", "ready" before the call, "done" after it
    ag_aggregation,         \* the aggregation name a ranker is constructed with
    ag_intent_filter,       \* the intent_filter of the ranker's run
    ag_found,               \* the phrases the ranker's query finds: expression and score
    ag_res,                 \* the NLUResult of the ranker's run
    ag_pc,                  \* "idle", "ready", "done" or "error" (ValueError)
    ph_entities,            \* Phrase.__init__: argument entities (list of PhraseEntity)
    ph_phrase,              \* the Phrase constructed, once constructed
    ph_annotated,           \* the last annotate call: its argument and self.entities before it
    ph_n,                   \* number of annotate calls made on the phrase
    ph_pc,                  \* "idle", "new" before the construction, "live" after it
    tn_max_verify_nr,       \* BotEnv.max_verify_nr
    tn_contexts,            \* bot_session.dialogue_state: its contexts
    tn_slots,               \* bot_session.dialogue_state: its slots
    tn_iu_result,           \* bot_session.iu_result
    tn_top,                 \* the top_confident_intents of the last turn
    tn_dispatched,          \* what the last turn executed and sent to the dispatcher
    tn_turns,               \* number of turns responded to
    tn_pc,                  \* "idle", "ready" for an input, "error" after an exception
    tn_log_conversation,    \* BotEnv.log_conversation (True by default)
    tn_dispatcher,          \* bot_session.dispatcher: the MultiDispatchers around the session's own
    tn_live_calls,          \* the calls of dialogue_state.live() in the last turn
    tn_user_input           \* the argument user_input of the last turn

rankingVars == <<cr_ranking, cr_ids, cr_res, cr_pc>>
ambiguityVars == <<ra_entities, ra_remove_idxs, ra_res, ra_pc>>
stateVars == <<ds_contexts, ds_templates, ds_refs>>
iuVars == <<iu_user_input, iu_matchable_intents, iu_nlu_res, iu_intent_scores, iu_result, iu_pc>>
regexVars == <<rx_include, rx_exclude, rx_utterance, rx_intent_filter, rx_res, rx_pc>>
mapperVars == <<evm_regex_patterns, evm_entity, evm_text, evm_intent_filter, evm_res, evm_pc>>
pipelineVars ==
    <<pl_elements, pl_intent_filter, pl_expression_filter, pl_perfect_expression,
      pl_expression_scores, pl_confidence_thresholds, pl_entities, pl_curr_intent_filter,
      pl_i, pl_calls, pl_res, pl_pc>>
patternVars == <<pp_pattern, pp_max_phrases, pp_max_entity_values, pp_max_value_synonyms, pp_value_order, pp_synonym_order, pp_res, pp_pc>>
aggregateVars == <<ag_aggregation, ag_intent_filter, ag_found, ag_res, ag_pc>>
phraseVars == <<ph_entities, ph_phrase, ph_annotated, ph_n, ph_pc>>
turnVars == <<tn_max_verify_nr, tn_contexts, tn_slots, tn_iu_result, tn_top, tn_dispatched, tn_turns, tn_pc, tn_log_conversation, tn_dispatcher, tn_live_calls, tn_user_input>>

vars == <<rankingVars, ambiguityVars, stateVars, iuVars, regexVars, mapperVars, pipelineVars, patternVars, aggregateVars, phraseVars, turnVars>>

\* the Python value None of a field that otherwise holds a string
PatternIdle ==
    /\ pp_pattern = <<>>
    /\ pp_max_phrases = <<>>
    /\ pp_max_entity_values = <<>>
    /\ pp_max_value_synonyms = <<>>
    /\ pp_value_order = <<>>
    /\ pp_synonym_order = <<>>
    /\ pp_res = <<>>
    /\ pp_pc = "idle"

AggregateIdle ==
    /\ ag_aggregation = ""
    /\ ag_intent_filter = {}
    /\ ag_found = <<>>
    /\ ag_res = <<>>
    /\ ag_pc = "idle"

PhraseIdle ==
    /\ ph_entities = <<>>
    /\ ph_phrase = <<>>
    /\ ph_annotated = <<>>
    /\ ph_n = 0
    /\ ph_pc = "idle"

TurnIdle ==
    /\ tn_max_verify_nr = 0
    /\ tn_contexts = <<>>
    /\ tn_slots = <<>>
    /\ tn_iu_result = <<>>
    /\ tn_top = <<>>
    /\ tn_dispatched = <<>>
    /\ tn_turns = 0
    /\ tn_pc = "idle"
    /\ tn_log_conversation = FALSE
    /\ tn_dispatcher = 0
    /\ tn_live_calls = 0
    /\ tn_user_input = <<>>

None == "None"

\* the state of a component that is not part of the specification at hand
RankingIdle ==
    /\ cr_ranking = <<>>
    /\ cr_ids = <<>>
    /\ cr_res = <<>>
    /\ cr_pc = "idle"

AmbiguityIdle ==
    /\ ra_entities = <<>>
    /\ ra_remove_idxs = {}
    /\ ra_res = <<>>
    /\ ra_pc = "idle"

StateIdle ==
    /\ ds_contexts = <<>>
    /\ ds_templates = <<>>
    /\ ds_refs = <<>>

IUIdle ==
    /\ iu_user_input = <<>>
    /\ iu_matchable_intents = {}
    /\ iu_nlu_res = <<>>
    /\ iu_intent_scores = <<>>
    /\ iu_result = <<>>
    /\ iu_pc = "idle"

RegexIdle ==
    /\ rx_include = <<>>
    /\ rx_exclude = <<>>
    /\ rx_utterance = ""
    /\ rx_intent_filter = <<>>
    /\ rx_res = <<>>
    /\ rx_pc = "idle"

MapperIdle ==
    /\ evm_regex_patterns = {}
    /\ evm_entity = ""
    /\ evm_text = ""
    /\ evm_intent_filter = <<>>
    /\ evm_res = <<>>
    /\ evm_pc = "idle"

PipelineIdle ==
    /\ pl_elements = <<>>
    /\ pl_intent_filter = <<>>
    /\ pl_expression_filter = <<>>
    /\ pl_perfect_expression = None
    /\ pl_expression_scores = <<>>
    /\ pl_confidence_thresholds = <<>>
    /\ pl_entities = {}
    /\ pl_curr_intent_filter = {}
    /\ pl_i = 0
    /\ pl_calls = <<>>
    /\ pl_res = <<>>
    /\ pl_pc = "idle"


\* an Optional[int]: Nothing is the Python None, Some(x) the integer x
Nothing == <<>>
Some(x) == <<x>>
Get(o) == o[1]

\* the float 1.0 in fixed point: the mean of one, two or three scores that
\* are multiples of Half is an integer
One == 12
Half == One \div 2

(***************************************************************************)
(* Generic helpers                                                         *)
(***************************************************************************)
Range(s) == {s[i] : i \in DOMAIN s}

\* the duplicate-free sequences over S of length at most n
InjSeqs(S, n) ==
    UNION {{s \in [1..k -> S] : \A i, j \in 1..k : i # j => s[i] # s[j]} : k \in 0..n}

\* F(v), with v evaluated once
With(v, F(_)) == CHOOSE y \in {F(x) : x \in {v}} : TRUE

Min2(a, b) == IF a <= b THEN a ELSE b
Max2(a, b) == IF a >= b THEN a ELSE b

(***************************************************************************)
(* models/utils.py                                                         *)
(***************************************************************************)
\* class RankingScore: (ref_id, score)
RankingScore(ref_id, score) == [ref_id |-> ref_id, score |-> score]

\* complete_ranking without the check "s.ref_id not in ids" of its first loop
KeepAll(ranking, ids) == ranking

\* first loop of complete_ranking: keep, in order, the entries whose ref_id is in ids
RECURSIVE KeepKnown(_, _)
KeepKnown(ranking, ids) ==
    IF ranking = <<>> THEN <<>>
    ELSE IF Head(ranking).ref_id \notin Range(ids)
         THEN KeepKnown(Tail(ranking), ids)
         ELSE <<Head(ranking)>> \o KeepKnown(Tail(ranking), ids)

\* second loop of complete_ranking: append RankingScore(id, added_conf) for
\* every id, in the order of ids, that is not in res_ids yet
RECURSIVE AddMissing(_, _, _, _)
AddMissing(res, res_ids, ids, added_conf) ==
    IF ids = <<>> THEN res
    ELSE IF Head(ids) \in res_ids
         THEN AddMissing(res, res_ids, Tail(ids), added_conf)
         ELSE AddMissing(Append(res, RankingScore(Head(ids), added_conf)),
                         res_ids \cup {Head(ids)}, Tail(ids), added_conf)

complete_ranking(ranking, ids, added_conf) ==
    LET res == KeepKnown(ranking, ids)
        res_ids == {res[i].ref_id : i \in DOMAIN res}
    IN  AddMissing(res, res_ids, ids, added_conf)

(***************************************************************************)
(* intent_understanding/iu.py: extracted entities                          *)
(***************************************************************************)
\* class ExtractedEntity; start and end are 0-based character offsets
ExtractedEntity(start, end, entity, value, text, confidence, extractor) ==
    [start |-> start, end |-> end, entity |-> entity, value |-> value,
     text |-> text, confidence |-> confidence, extractor |-> extractor]

\* a key_tuple that also holds the span
key_tuple_with_span(e) == <<e.entity, e.value, e.text, e.start, e.end>>

\* ExtractedEntity.key_tuple
key_tuple(e) == <<e.entity, e.value, e.text>>

\* KeyComparable.__eq__ and __hash__ (the hash of the key tuple, taken as
\* the key tuple itself)
ExtractedEntity_eq(e1, e2) == key_tuple(e1) = key_tuple(e2)
ExtractedEntity_hash(e) == key_tuple(e)

\* set.update(es) of a Python set s of ExtractedEntity, es being a Python
\* set: an element equal to one of s is not added
set_update(s, es) ==
    s \cup {e \in es : \A x \in s : ~ ExtractedEntity_eq(x, e)}

\* set(lst) of a list of ExtractedEntity: of equal elements the first stays
RECURSIVE python_set(_)
python_set(lst) ==
    IF lst = <<>> THEN {}
    ELSE set_update({Head(lst)}, python_set(Tail(lst)))

\* entities_overlap with "<=" for the end: entities that touch overlap
entities_overlap_or_touch(entity1, entity2) ==
    \/ entity2.start <= entity1.start /\ entity1.start <= entity2.end
    \/ entity1.start <= entity2.start /\ entity2.start <= entity1.end

entities_overlap(entity1, entity2) ==
    \/ entity2.start <= entity1.start /\ entity1.start < entity2.end
    \/ entity1.start <= entity2.start /\ entity2.start < entity1.end

\* the tie-break of remove_ambiguous_entities turned round: on equal length
\* the entity with the larger index is removed
RemovedByPairKeepFirst(entities, i, j) ==
    IF i = j THEN {}
    ELSE IF entities_overlap(entities[i], entities[j])
            /\ entities[i].entity = entities[j].entity
            /\ entities[i].value = entities[j].value
         THEN IF Len(entities[i].text) = Len(entities[j].text)
              THEN (IF i <= j THEN {j} ELSE {i})
              ELSE IF Len(entities[i].text) > Len(entities[j].text) THEN {j} ELSE {i}
         ELSE {}

\* body of the two loops of remove_ambiguous_entities for the outer index i
\* and the inner index j: the indexes it adds to remove_idxs
RemovedByPair(entities, i, j) ==
    IF i = j THEN {}
    ELSE IF entities_overlap(entities[i], entities[j])
            /\ entities[i].entity = entities[j].entity
            /\ entities[i].value = entities[j].value
         THEN IF Len(entities[i].text) = Len(entities[j].text)
              THEN (IF i <= j THEN {i} ELSE {j})
              ELSE IF Len(entities[i].text) > Len(entities[j].text) THEN {j} ELSE {i}
         ELSE {}

remove_idxs(entities) ==
    UNION {RemovedByPair(entities, i, j) : i \in DOMAIN entities, j \in DOMAIN entities}

\* [e for i, e in enumerate(entities) if i not in idxs]
RECURSIVE DropIdxs(_, _, _)
DropIdxs(entities, idxs, i) ==
    IF i > Len(entities) THEN <<>>
    ELSE IF i \in idxs THEN DropIdxs(entities, idxs, i + 1)
         ELSE <<entities[i]>> \o DropIdxs(entities, idxs, i + 1)

remove_ambiguous_entities(entities) == DropIdxs(entities, remove_idxs(entities), 1)

(***************************************************************************)
(* Specification SpecRanking: complete_ranking on every ranking and id     *)
(* list its callers can build (rankings come from dictionaries, id lists   *)
(* from sets: neither repeats an id).                                      *)
(***************************************************************************)
MaxRefs == 3
MaxScore == 2

RefIds == 1..MaxRefs
Scores == 0..MaxScore

Rankings(S, n) ==
    UNION {{[i \in 1..Len(q) |-> RankingScore(q[i], sc[i])] : sc \in [1..Len(q) -> Scores]}
           : q \in InjSeqs(S, n)}

InitRanking ==
    /\ AmbiguityIdle /\ StateIdle /\ IUIdle /\ RegexIdle /\ MapperIdle /\ PipelineIdle /\ PatternIdle /\ AggregateIdle /\ PhraseIdle /\ TurnIdle
    /\ cr_ranking \in Rankings(RefIds, MaxRefs)
    /\ cr_ids \in InjSeqs(RefIds, MaxRefs)
    /\ cr_res = <<>>
    /\ cr_pc = "call"

CompleteRanking ==
    /\ cr_pc = "call"
    /\ cr_res' = complete_ranking(cr_ranking, cr_ids, 0)
    /\ cr_pc' = "done"
    /\ UNCHANGED <<cr_ranking, cr_ids, ambiguityVars, stateVars, iuVars, regexVars, mapperVars, pipelineVars, patternVars, aggregateVars, phraseVars, turnVars>>

NextRanking == CompleteRanking

SpecRanking == InitRanking /\ [][NextRanking]_vars

RefIdsOf(ranking) == {ranking[i].ref_id : i \in DOMAIN ranking}

TextLen == 3
MaxCandidates == 3

\* the text the candidates were matched in
Utterance == [i \in 1..TextLen |-> i]

\* the (entity, value) pairs of the candidates
EntityValues == {<<"country", "COUNTRY_DE">>, <<"country", "COUNTRY_IT">>,
                 <<"city", "COUNTRY_DE">>}

\* the spans of the text; ExtractedEntity raises ValueError when end <= start
Spans == {sp \in (0..(TextLen - 1)) \X (1..TextLen) : sp[2] > sp[1]}

Candidates ==
    {ExtractedEntity(sp[1], sp[2], ev[1], ev[2], SubSeq(Utterance, sp[1] + 1, sp[2]), One, None) :
        sp \in Spans, ev \in EntityValues}

InitAmbiguity ==
    /\ RankingIdle /\ StateIdle /\ IUIdle /\ RegexIdle /\ MapperIdle /\ PipelineIdle /\ PatternIdle /\ AggregateIdle /\ PhraseIdle /\ TurnIdle
    /\ ra_entities \in UNION {[1..n -> Candidates] : n \in 0..MaxCandidates}
    /\ ra_remove_idxs = {}
    /\ ra_res = <<>>
    /\ ra_pc = "call"

RemoveAmbiguousEntities ==
    /\ ra_pc = "call"
    /\ ra_remove_idxs' = remove_idxs(ra_entities)
    /\ ra_res' = remove_ambiguous_entities(ra_entities)
    /\ ra_pc' = "done"
    /\ UNCHANGED <<ra_entities, rankingVars, stateVars, iuVars, regexVars, mapperVars, pipelineVars, patternVars, aggregateVars, phraseVars, turnVars>>

NextAmbiguity == RemoveAmbiguousEntities

SpecAmbiguity == InitAmbiguity /\ [][NextAmbiguity]_vars

SameEntityValue(e1, e2) == e1.entity = e2.entity /\ e1.value = e2.value

\* entities i and j of the input overlap and have equal (entity, value)
Ambiguous(i, j) ==
    /\ i # j
    /\ entities_overlap(ra_entities[i], ra_entities[j])
    /\ SameEntityValue(ra_entities[i], ra_entities[j])

Kept(i) == i \notin ra_remove_idxs

\* entity i loses against entity j: it is shorter, or as long and earlier
Loses(i, j) ==
    /\ Ambiguous(i, j)
    /\ \/ Len(ra_entities[i].text) < Len(ra_entities[j].text)
       \/ Len(ra_entities[i].text) = Len(ra_entities[j].text) /\ i < j

\* C3 as stated: of two overlapping entities with equal (entity, value) the
\* result keeps the one with the longer text and drops the other; on equal
\* length it keeps the one with the smaller input index.
KeepsLongerOrEarlier ==
    ra_pc = "done" =>
        \A i, j \in DOMAIN ra_entities :
            (Ambiguous(i, j) /\
                (\/ Len(ra_entities[i].text) > Len(ra_entities[j].text)
                 \/ Len(ra_entities[i].text) = Len(ra_entities[j].text) /\ i < j))
            => (Kept(i) /\ ~Kept(j))

\* C3 as amended: of two overlapping entities with equal (entity, value) the
\* result drops the one with the shorter text and, on equal length, the one
\* with the smaller input index; an entity is kept exactly when it loses
\* against no entity in this way, and the result is the list of the kept
\* entities in input order.
DropsShorterOrEarlier ==
    ra_pc = "done" =>
        /\ \A i, j \in DOMAIN ra_entities : Loses(i, j) => ~Kept(i)
        /\ \A i \in DOMAIN ra_entities :
              Kept(i) <=> ~(\E j \in DOMAIN ra_entities : Loses(i, j))
        /\ ra_res = DropIdxs(ra_entities, {i \in DOMAIN ra_entities : ~Kept(i)}, 1)
        /\ Len(ra_res) = Cardinality({i \in DOMAIN ra_entities : Kept(i)})

\* two overlapping entities of equal (entity, value) and equal length, and a
\* third, longer one overlapping the second: only the longest is kept
DropsShorterOrEarlierWitness ==
    /\ ra_pc = "done"
    /\ Len(ra_entities) = 3
    /\ Ambiguous(1, 2) /\ Len(ra_entities[1].text) = Len(ra_entities[2].text)
    /\ Ambiguous(2, 3) /\ Len(ra_entities[3].text) > Len(ra_entities[2].text)
    /\ ~Kept(1) /\ ~Kept(2) /\ Kept(3)

(***************************************************************************)
(* models/context.py and models/state.py: the contexts of the dialogue     *)
(* state                                                                   *)
(***************************************************************************)
\* TTLContext.__init__; lifetime is an Optional[int]
TTLContext(name, lifetime) ==
    [name |-> name, lifetime |-> lifetime, remaining |-> lifetime, lived |-> 0]

TTLContext_live(c) ==
    [c EXCEPT !.lived = @ + 1,
              !.remaining = IF c.lifetime # Nothing THEN Some(Max2(-1, Get(@) - 1)) ELSE @]

\* is_dead with the test "remaining <= 0" in place of "remaining < 0"
is_dead_at_zero(c) ==
    IF c.lifetime = Nothing THEN FALSE ELSE Get(c.remaining) <= 0

is_dead(c) ==
    IF c.lifetime = Nothing THEN FALSE ELSE Get(c.remaining) < 0

\* DialogueState.set_context stores a deep copy of the context under its name
set_context(contexts, context) ==
    [n \in (DOMAIN contexts) \cup {context.name} |->
        IF n = context.name THEN context ELSE contexts[n]]

clear_context(contexts, name) ==
    [n \in (DOMAIN contexts) \ {name} |-> contexts[n]]

context_names(contexts) == DOMAIN contexts

\* DialogueState.live: every context lives, then the dead ones are dropped
DialogueState_live(contexts) ==
    LET aged == [n \in DOMAIN contexts |-> TTLContext_live(contexts[n])]
    IN  [n \in {m \in DOMAIN aged : ~is_dead(aged[m])} |-> aged[n]]

(***************************************************************************)
(* Specification SpecState: a dialogue state, empty at first, on which     *)
(* actions set and clear contexts and every turn ends with live().         *)
(***************************************************************************)
MaxLifetime == 3
MaxLived == 3

ContextNames == {"ask_ok", "ask_continue", "verify_intent"}

\* the lifetimes a context is created with: None or a number of turns
Lifetimes == {Nothing} \cup {Some(k) : k \in 0..MaxLifetime}

\* the context itself, stored without a copy: the template's own object
no_copy(template) == Some(template)

\* copy.deepcopy(context): a new object, which is no template
deepcopy(template) == Nothing

\* the ContextSetActions of the bot: one per name and lifetime
ContextSetActions == ContextNames \X Lifetimes

\* the objects live() reaches through the templates: a stored context that is
\* a template is that template
AgedTemplates(templates, refs) ==
    [k \in DOMAIN templates |->
        IF \E n \in DOMAIN refs : refs[n] = Some(k)
        THEN TTLContext_live(templates[k]) ELSE templates[k]]

InitState ==
    /\ RankingIdle /\ AmbiguityIdle /\ IUIdle /\ RegexIdle /\ MapperIdle /\ PipelineIdle /\ PatternIdle /\ AggregateIdle /\ PhraseIdle /\ TurnIdle
    /\ ds_contexts = <<>>
    /\ ds_templates = [k \in ContextSetActions |-> TTLContext(k[1], k[2])]
    /\ ds_refs = <<>>

\* ContextSetAction._do_execute: set_context(self._context), which stores a
\* deep copy of the template
SetContext ==
    \E k \in ContextSetActions :
        /\ ds_contexts' = set_context(ds_contexts, ds_templates[k])
        /\ ds_refs' = [n \in DOMAIN ds_contexts' |-> IF n = k[1] THEN deepcopy(k) ELSE ds_refs[n]]
        /\ UNCHANGED ds_templates
        /\ UNCHANGED <<rankingVars, ambiguityVars, iuVars, regexVars, mapperVars, pipelineVars, patternVars, aggregateVars, phraseVars, turnVars>>

\* ContextClearAction.execute: clear_context(name)
ClearContext ==
    \E name \in ContextNames :
        /\ ds_contexts' = clear_context(ds_contexts, name)
        /\ ds_refs' = [n \in DOMAIN ds_contexts' |-> ds_refs[n]]
        /\ UNCHANGED ds_templates
        /\ UNCHANGED <<rankingVars, ambiguityVars, iuVars, regexVars, mapperVars, pipelineVars, patternVars, aggregateVars, phraseVars, turnVars>>

\* DialogueState.live(); the lived counter of an immortal context is capped
Live ==
    /\ \A n \in DOMAIN ds_contexts :
          ds_contexts[n].lifetime = Nothing => ds_contexts[n].lived < MaxLived
    /\ ds_contexts' = DialogueState_live(ds_contexts)
    /\ ds_templates' = AgedTemplates(ds_templates, ds_refs)
    /\ ds_refs' = [n \in DOMAIN ds_contexts' |-> ds_refs[n]]
    /\ UNCHANGED <<rankingVars, ambiguityVars, iuVars, regexVars, mapperVars, pipelineVars, patternVars, aggregateVars, phraseVars, turnVars>>

NextState == SetContext \/ ClearContext \/ Live

SpecState == InitState /\ [][NextState]_vars

\* C5: DialogueState.live() lowers the remaining lifetime of every context
\* with a finite lifetime by exactly one and then removes every context whose
\* remaining lifetime is below 0: such a context is in the state after
\* live() exactly when its lowered remaining lifetime is at least 0, and then
\* holds that lowered value; a context with lifetime None stays in the state
\* at every live(), hence after any number of them; live() adds no context.
LiveLowersAndPurges ==
    [][Live =>
        /\ DOMAIN ds_contexts' \subseteq DOMAIN ds_contexts
        /\ \A n \in DOMAIN ds_contexts :
              LET c == ds_contexts[n]
              IN  IF c.lifetime = Nothing
                  THEN /\ n \in DOMAIN ds_contexts'
                       /\ ds_contexts'[n].remaining = Nothing
                       /\ ds_contexts'[n].lived = c.lived + 1
                  ELSE IF Get(c.remaining) - 1 < 0
                       THEN n \notin DOMAIN ds_contexts'
                       ELSE /\ n \in DOMAIN ds_contexts'
                            /\ ds_contexts'[n].remaining = Some(Get(c.remaining) - 1)
                            /\ ds_contexts'[n].lifetime = c.lifetime]_vars

\* a state after several live() calls: an immortal context has lived through
\* all of them, a context of finite lifetime has lost one turn per call, and
\* a third context has been purged
LiveLowersAndPurgesWitness ==
    /\ \E n \in DOMAIN ds_contexts :
          ds_contexts[n].lifetime = Nothing /\ ds_contexts[n].lived = MaxLived
    /\ \E n \in DOMAIN ds_contexts :
          /\ ds_contexts[n].lifetime # Nothing
          /\ ds_contexts[n].lived = MaxLived - 1
          /\ Get(ds_contexts[n].remaining) = Get(ds_contexts[n].lifetime) - ds_contexts[n].lived
    /\ Cardinality(DOMAIN ds_contexts) < Cardinality(ContextNames)

\* a context of the state is the copy of a template that has lived through
\* `turns` calls of live() since it was set
LivedCopy(c, turns) ==
    /\ c.lived = turns
    /\ c.remaining = (IF c.lifetime = Nothing THEN Nothing ELSE Some(Get(c.lifetime) - turns))

\* C23: a context set with a finite lifetime L >= 0 is aged at the end of the
\* turn that sets it, is in the dialogue state at the start of exactly the
\* next L turns that call live(), and is absent from then on unless it is set
\* again: a context that has lived through k calls has k <= L, and the next
\* live() keeps it exactly when k < L; setting a context stores a fresh copy
\* with its full lifetime and lived = 0, whether or not the name was present;
\* no ContextSetAction's template context is ever aged.
ContextLivesLifetimeTurns ==
    [][/\ \A n \in DOMAIN ds_contexts :
             LET c == ds_contexts[n]
             IN  c.lifetime # Nothing =>
                    /\ c.lived <= Get(c.lifetime)
                    /\ LivedCopy(c, c.lived)
                    /\ Live => /\ n \in DOMAIN ds_contexts' <=> c.lived < Get(c.lifetime)
                               /\ n \in DOMAIN ds_contexts' =>
                                     /\ ds_contexts'[n].lifetime = c.lifetime
                                     /\ LivedCopy(ds_contexts'[n], c.lived + 1)
       /\ SetContext =>
             \E k \in ContextSetActions :
                /\ k[1] \in DOMAIN ds_contexts'
                /\ ds_contexts'[k[1]] = TTLContext(k[1], k[2])
                /\ \A n \in ContextNames \ {k[1]} :
                      /\ n \in DOMAIN ds_contexts' <=> n \in DOMAIN ds_contexts
                      /\ n \in DOMAIN ds_contexts => ds_contexts'[n] = ds_contexts[n]
       /\ \A k \in ContextSetActions : ds_templates'[k] = TTLContext(k[1], k[2])]_vars

\* a context of the default lifetime is in the state at the start of the
\* third turn after the one that set it and has one live() left; another
\* context, set later, is fresh
ContextLivesLifetimeTurnsWitness ==
    /\ \E n \in DOMAIN ds_contexts :
          /\ ds_contexts[n].lifetime = Some(3)
          /\ ds_contexts[n].lived = 3
          /\ ds_contexts[n].remaining = Some(0)
    /\ \E n \in DOMAIN ds_contexts :
          /\ ds_contexts[n].lifetime # Nothing
          /\ ds_contexts[n].lived = 0

\* a context of lifetime 0 is in the state during the turn that sets it
ContextOfLifetimeZeroReached ==
    \E n \in DOMAIN ds_contexts : ds_contexts[n].lifetime = Some(0)

(***************************************************************************)
(* models/input.py, models/inputs: user inputs                             *)
(***************************************************************************)
NLInput(text) == [type |-> "NLInput", text |-> text]
KeyedInput(key) == [type |-> "KeyedInput", key |-> key]
SelectionInput(selection_key, selection_idx) ==
    [type |-> "SelectionInput", selection_key |-> selection_key,
     selection_idx |-> selection_idx]

(***************************************************************************)
(* models/trigger.py, models/triggers: triggers of an intent               *)
(***************************************************************************)
\* a trigger argument of Intent.__init__ that is None
NoTrigger == [type |-> None]
PhraseNLTrigger(expression) == [type |-> "PhraseNLTrigger", expression |-> expression]
AnyNLTrigger == [type |-> "AnyNLTrigger"]
FallbackNLTrigger == [type |-> "FallbackNLTrigger"]
KeyedTrigger(key) == [type |-> "KeyedTrigger", key |-> key]
SingleSelectionTrigger(selection_key, selection_idx) ==
    [type |-> "SingleSelectionTrigger", selection_key |-> selection_key,
     selection_idx |-> selection_idx]
AnySelectionTrigger == [type |-> "AnySelectionTrigger"]

\* Trigger.matches_input of every trigger class
matches_input(trigger, input) ==
    CASE trigger.type \in {"PhraseNLTrigger", "AnyNLTrigger", "FallbackNLTrigger"} ->
            input.type = "NLInput"
      [] trigger.type = "KeyedTrigger" ->
            input.type = "KeyedInput" /\ input.key = trigger.key
      [] trigger.type = "SingleSelectionTrigger" ->
            /\ input.type = "SelectionInput"
            /\ input.selection_idx = trigger.selection_idx
            /\ input.selection_key = trigger.selection_key
      [] trigger.type = "AnySelectionTrigger" ->
            input.type = "SelectionInput"

(***************************************************************************)
(* models/expression.py, models/intent.py: expressions and intents         *)
(***************************************************************************)
NLExpression(id, regex_patterns, exclude_regex_patterns) ==
    [id |-> id, regex_patterns |-> regex_patterns,
     exclude_regex_patterns |-> exclude_regex_patterns]

\* Intent.__init__; entity_filter is Nothing (all entities) or Some(set of ids)
Intent(id, input_contexts, nl_trigger, selection_trigger, keyed_trigger, verify, entity_filter) ==
    [id |-> id, input_contexts |-> input_contexts, nl_trigger |-> nl_trigger,
     selection_trigger |-> selection_trigger, keyed_trigger |-> keyed_trigger,
     verify |-> verify, entity_filter |-> entity_filter]

\* Intent.has_contexts with "any" in place of "all"
has_some_context(intent, contexts) ==
    \E c \in intent.input_contexts : c \in context_names(contexts)

has_contexts(intent, contexts) ==
    \A c \in intent.input_contexts : c \in context_names(contexts)

has_trigger(intent, user_input) ==
    \E t \in {intent.nl_trigger, intent.selection_trigger, intent.keyed_trigger} :
        t # NoTrigger /\ matches_input(t, user_input)

PerfectScore == [class |-> "PerfectScore"]
FloatScore(value) == [class |-> "FloatScore", value |-> value]

\* Intent.custom_score: no intent of the repository overrides it
custom_score(intent, user_input, contexts, score) == score

(***************************************************************************)
(* bot_env.py: the registry of a bot.  The bot modelled registers two      *)
(* expressions and the intents below; BotEnv.start adds VerifyIntentIntent.*)
(***************************************************************************)
HelloExpression ==
    NLExpression("hello-expression", {"^Hel\\w+$", "^Hu\\w+$"}, {})
YesExpression ==
    NLExpression("yes-expression", {"^yes.*$", "^\\w*yeah$"}, {"^yes but.*$"})

RegisteredIntents == {
    Intent("hello", {}, PhraseNLTrigger(HelloExpression), NoTrigger, NoTrigger, TRUE,
           Some({})),
    Intent("ok.yes", {"ask_ok"}, PhraseNLTrigger(YesExpression), NoTrigger, NoTrigger,
           TRUE, Some({"country"})),
    Intent("continue.yes", {"ask_ok", "ask_continue"}, PhraseNLTrigger(YesExpression),
           SingleSelectionTrigger("continue", 0), NoTrigger, TRUE, Some({"pronoun"})),
    Intent("continue.no", {"ask_continue"}, NoTrigger,
           SingleSelectionTrigger("continue", 1), NoTrigger, TRUE, Some({"origin"})),
    Intent("chat", {"verify_intent"}, AnyNLTrigger, NoTrigger, NoTrigger, FALSE, Some({})),
    Intent("fallback", {"ask_continue"}, FallbackNLTrigger, NoTrigger, NoTrigger, FALSE,
           Some({})),
    Intent("menu", {}, NoTrigger, NoTrigger, KeyedTrigger("menu"), FALSE, Some({})),
    Intent("VerifyIntentIntent", {"verify_intent"}, NoTrigger, AnySelectionTrigger,
           NoTrigger, TRUE, Nothing)}

IntentIds == {i.id : i \in RegisteredIntents}

\* BotEnv._intents: intent id -> Intent
Intents == [id \in IntentIds |-> CHOOSE i \in RegisteredIntents : i.id = id]

\* BotEnv.intent
intent(intent_id) == Intents[intent_id]

IsPhraseIntent(i) == i.nl_trigger # NoTrigger /\ i.nl_trigger.type = "PhraseNLTrigger"

\* BotEnv.intents; each filter is Nothing (no filter) or Some(set of ids)
intents(intent_filter, nl_expression_filter) ==
    {i \in RegisteredIntents :
        /\ intent_filter # Nothing => i.id \in Get(intent_filter)
        /\ nl_expression_filter # Nothing =>
              (IsPhraseIntent(i) /\ i.nl_trigger.expression.id \in Get(nl_expression_filter))}

\* BotEnv.nl_expressions
nl_expressions(intent_filter) ==
    {i.nl_trigger.expression : i \in {j \in intents(intent_filter, Nothing) : IsPhraseIntent(j)}}

(***************************************************************************)
(* intent_understanding/iu.py: sort_intent_ranking                         *)
(***************************************************************************)
\* the order of Python tuples of equal length: the first position where they
\* differ decides
RECURSIVE TupleLessFrom(_, _, _)
TupleLessFrom(a, b, k) ==
    IF k > Len(a) THEN FALSE
    ELSE IF a[k] = b[k] THEN TupleLessFrom(a, b, k + 1)
         ELSE a[k] < b[k]

TupleLess(a, b) == TupleLessFrom(a, b, 1)

\* sorted(seq, key=Key, reverse=True); the sort is stable: elements of equal
\* key keep the order they have in seq
SortedReverse(seq, Key(_)) ==
    With([i \in DOMAIN seq |-> Key(seq[i])], LAMBDA keys :
    With([i \in DOMAIN seq |->
             1 + Cardinality({j \in DOMAIN seq :
                     IF keys[j] = keys[i] THEN j < i
                     ELSE TupleLess(keys[i], keys[j])})], LAMBDA pos :
        [p \in DOMAIN seq |-> seq[CHOOSE i \in DOMAIN seq : pos[i] = p]]))

SetMax(S) == CHOOSE x \in S : \A y \in S : y <= x
SetMin(S) == CHOOSE x \in S : \A y \in S : x <= y

max_context_lived(contexts) ==
    IF DOMAIN contexts # {} THEN SetMax({contexts[n].lived : n \in DOMAIN contexts}) ELSE 0

most_recent_input_context_value(contexts, i) ==
    LET res == {contexts[c].lived : c \in i.input_contexts \cap context_names(contexts)}
    IN  IF res # {} THEN SetMin(res) ELSE max_context_lived(contexts) + 1

\* the sort key with the number of input contexts negated
sort_key_fewer_first(contexts, s) ==
    <<s.score,
      -most_recent_input_context_value(contexts, intent(s.ref_id)),
      -Cardinality(intent(s.ref_id).input_contexts)>>

sort_key(contexts, s) ==
    <<s.score,
      -most_recent_input_context_value(contexts, intent(s.ref_id)),
      Cardinality(intent(s.ref_id).input_contexts)>>

sort_intent_ranking(contexts, intent_ranking) ==
    SortedReverse(intent_ranking, LAMBDA s : sort_key(contexts, s))

(***************************************************************************)
(* intent_understanding/natural_language_understanding/nlu.py              *)
(***************************************************************************)
sort_expression_ranking(expression_ranking) ==
    SortedReverse(expression_ranking, LAMBDA s : <<s.score>>)

NLUResult(utterance, expression_ranking, confidence_threshold, entities) ==
    [utterance |-> utterance, expression_ranking |-> expression_ranking,
     confidence_threshold |-> confidence_threshold, entities |-> entities]

\* NLUResult.conf_expression(): Nothing for None, or Some(first entry of the ranking)
conf_expression(res) ==
    IF Len(res.expression_ranking) > 0
    THEN IF res.expression_ranking[1].score >= res.confidence_threshold
         THEN Some(res.expression_ranking[1]) ELSE Nothing
    ELSE Nothing

(***************************************************************************)
(* intent_understanding/default_iu.py: DefaultIU                           *)
(***************************************************************************)
MyNLUResult(utterance, intent_ranking, confidence_threshold, entities, nlu_result) ==
    [utterance |-> utterance, intent_ranking |-> intent_ranking,
     confidence_threshold |-> confidence_threshold, entities |-> entities,
     nlu_result |-> nlu_result]

IUResult(user_input, intent_ranking, confidence_threshold, entities, nlu_result, fallback_intent_id) ==
    [user_input |-> user_input, intent_ranking |-> intent_ranking,
     confidence_threshold |-> confidence_threshold, entities |-> entities,
     nlu_result |-> nlu_result, fallback_intent_id |-> fallback_intent_id]

determine_matchable_intents(user_input, contexts) ==
    {i.id : i \in {j \in intents(Nothing, Nothing) :
                      has_contexts(j, contexts) /\ has_trigger(j, user_input)}}

\* {s.ref_id: s.score for s in ranking}[id]: the last entry of the id wins
ScoreOf(ranking, id) ==
    ranking[SetMax({k \in DOMAIN ranking : ranking[k].ref_id = id})].score

expression_ranking_to_intent_ranking(contexts, intent_filter, expression_ranking) ==
    LET scored == SelectSeq(intent_filter, LAMBDA id :
                      /\ IsPhraseIntent(intent(id))
                      /\ intent(id).nl_trigger.expression.id \in RefIdsOf(expression_ranking))
    IN  With([k \in DOMAIN scored |->
                 RankingScore(scored[k],
                     ScoreOf(expression_ranking, intent(scored[k]).nl_trigger.expression.id))],
             LAMBDA intent_ranking : sort_intent_ranking(contexts, intent_ranking))

\* DefaultIU._run_nlu, given the result nlu_res of the run of the NLU
run_nlu(user_input, contexts, intent_filter, nlu_res) ==
    MyNLUResult(user_input.text,
                expression_ranking_to_intent_ranking(contexts, intent_filter,
                                                     nlu_res.expression_ranking),
                nlu_res.confidence_threshold, nlu_res.entities, nlu_res)

\* _score_matchable_intent without the PerfectScore of an AnyNLTrigger
score_matchable_intent_float(user_input, contexts, i, nlu_score) ==
    IF user_input.type = "NLInput"
    THEN FloatScore(IF nlu_score # Nothing THEN Get(nlu_score) ELSE 0)
    ELSE PerfectScore

\* nlu_score is Nothing or Some(score)
score_matchable_intent(user_input, contexts, i, nlu_score) ==
    LET score == IF user_input.type = "NLInput"
                 THEN IF i.nl_trigger # NoTrigger /\ i.nl_trigger.type = "AnyNLTrigger"
                      THEN PerfectScore
                      ELSE FloatScore(IF nlu_score # Nothing THEN Get(nlu_score) ELSE 0)
                 ELSE PerfectScore
    IN  custom_score(i, user_input, contexts, score)

\* the dictionary intent_scores of _score_matchable_intents
intent_scores(user_input, contexts, nlu_res, matchable_intents) ==
    [id \in Range(matchable_intents) |->
        score_matchable_intent(user_input, contexts, intent(id),
            IF nlu_res # Nothing /\ id \in RefIdsOf(Get(nlu_res).intent_ranking)
            THEN Some(ScoreOf(Get(nlu_res).intent_ranking, id)) ELSE Nothing)]

\* _score_matchable_intents ranking only the intents the NLU has ranked
score_matchable_intents_of_ranked(user_input, contexts, nlu_res, matchable_intents) ==
    With(SelectSeq(matchable_intents, LAMBDA id :
             nlu_res = Nothing \/ id \in RefIdsOf(Get(nlu_res).intent_ranking)), LAMBDA ranked :
    With(intent_scores(user_input, contexts, nlu_res, matchable_intents), LAMBDA scores :
    With({id \in DOMAIN scores : scores[id].class = "PerfectScore"}, LAMBDA perfect_intents :
    With(IF Cardinality(perfect_intents) > 0
         THEN [k \in DOMAIN ranked |->
                  RankingScore(ranked[k],
                      IF scores[ranked[k]].class = "PerfectScore" THEN One ELSE 0)]
         ELSE [k \in DOMAIN ranked |->
                  RankingScore(ranked[k], scores[ranked[k]].value)],
         LAMBDA intent_ranking :
        <<sort_intent_ranking(contexts, intent_ranking),
          IF Cardinality(perfect_intents) > 0 THEN One
          ELSE IF nlu_res # Nothing THEN Get(nlu_res).confidence_threshold ELSE 0>>))))

\* DefaultIU._score_matchable_intents: (intent_ranking, confidence_threshold)
score_matchable_intents(user_input, contexts, nlu_res, matchable_intents) ==
    With(intent_scores(user_input, contexts, nlu_res, matchable_intents), LAMBDA scores :
    With({id \in DOMAIN scores : scores[id].class = "PerfectScore"}, LAMBDA perfect_intents :
    With(IF Cardinality(perfect_intents) > 0
         THEN [k \in DOMAIN matchable_intents |->
                  RankingScore(matchable_intents[k],
                      IF scores[matchable_intents[k]].class = "PerfectScore" THEN One ELSE 0)]
         ELSE [k \in DOMAIN matchable_intents |->
                  RankingScore(matchable_intents[k], scores[matchable_intents[k]].value)],
         LAMBDA intent_ranking :
        <<sort_intent_ranking(contexts, intent_ranking),
          IF Cardinality(perfect_intents) > 0 THEN One
          ELSE IF nlu_res # Nothing THEN Get(nlu_res).confidence_threshold ELSE 0>>)))

\* the candidates of _get_nl_fallback_intent taken among all the intents
nl_fallback_intents_of_all(matchable_intents) ==
    {id \in IntentIds :
        intent(id).nl_trigger # NoTrigger /\ intent(id).nl_trigger.type = "FallbackNLTrigger"}

\* the candidates of DefaultIU._get_nl_fallback_intent
nl_fallback_intents(matchable_intents) ==
    {id \in Range(matchable_intents) :
        intent(id).nl_trigger # NoTrigger /\ intent(id).nl_trigger.type = "FallbackNLTrigger"}

(***************************************************************************)
(* Specification SpecIU: DefaultIU.run on every input of the bot above, in *)
(* every dialogue state whose contexts have lived up to MaxTurns turns.    *)
(* The NLU is an oracle: it returns a ranking of the expressions of the    *)
(* intent filter, sorted by score, with a confidence threshold.           *)
(***************************************************************************)
MaxTurns == 1

\* the scores an NLU returns: 0.0, 0.5 and 1.0; its thresholds: 0.5 and 1.0
ScoreLevels == {0, Half, One}
Thresholds == {Half, One}

UserInputs ==
    {NLInput("yes"), KeyedInput("menu"), KeyedInput("help"),
     SelectionInput("continue", 0), SelectionInput("continue", 1),
     SelectionInput("intent", 0)}

\* the dialogue states: each context is absent, or was set with lifetime None
\* (the default of DefaultNLAction) and has lived up to MaxTurns turns; IU
\* reads the names and the lived counters only
DialogueStates ==
    UNION {{[n \in S |-> [TTLContext(n, Nothing) EXCEPT !.lived = k[n]]] :
                k \in [S -> 0..MaxTurns]} : S \in SUBSET ContextNames}

\* list(S) of a Python set S: its elements in any order
RECURSIVE ListsOf(_)
ListsOf(S) ==
    IF S = {} THEN {<<>>}
    ELSE UNION {{<<x>> \o q : q \in ListsOf(S \ {x})} : x \in S}

\* the rankings an NLU returns: every expression id once, best score first
SortedRankings(ids) ==
    {r \in [1..Cardinality(ids) -> [ref_id : ids, score : ScoreLevels]] :
        /\ \A i, j \in DOMAIN r : i # j => r[i].ref_id # r[j].ref_id
        /\ \A i, j \in DOMAIN r : i < j => r[i].score >= r[j].score}

\* the results of nlu.run(utterance, intent_filter), for the set of the ids
\* in intent_filter
NLUResults(utterance, intent_filter) ==
    {NLUResult(utterance, r, t, {}) :
        r \in SortedRankings({e.id : e \in nl_expressions(Some(intent_filter))}),
        t \in Thresholds}

\* the results of an NLU that need not rank every expression of the filter
\* (the interface NLU.run asks for no complete ranking)
AnyNLUResults(utterance, intent_filter) ==
    UNION {{NLUResult(utterance, r, t, {}) : r \in SortedRankings(ids), t \in Thresholds} :
              ids \in SUBSET {e.id : e \in nl_expressions(Some(intent_filter))}}

InitIU ==
    /\ RankingIdle /\ AmbiguityIdle /\ RegexIdle /\ MapperIdle /\ PipelineIdle /\ PatternIdle /\ AggregateIdle /\ PhraseIdle /\ TurnIdle
    /\ ds_contexts \in DialogueStates
    /\ ds_templates = <<>>
    /\ ds_refs = <<>>
    /\ iu_user_input = <<>>
    /\ iu_matchable_intents = {}
    /\ iu_nlu_res = <<>>
    /\ iu_intent_scores = <<>>
    /\ iu_result = <<>>
    /\ iu_pc = "ready"

\* DefaultIU.run(user_input, dialogue_state)
IURun ==
    /\ iu_pc = "ready"
    /\ \E user_input \in UserInputs :
       \E matchable \in {determine_matchable_intents(user_input, ds_contexts)} :
       \E nlu_result \in IF user_input.type = "NLInput"
                         THEN AnyNLUResults(user_input.text, matchable)
                         ELSE {Nothing} :
       \E matchable_intents \in ListsOf(matchable) :
       \E nlu_res \in {IF user_input.type = "NLInput"
                        THEN Some(run_nlu(user_input, ds_contexts, matchable_intents, nlu_result))
                        ELSE Nothing} :
       \E scored \in {score_matchable_intents(user_input, ds_contexts, nlu_res,
                                               matchable_intents)} :
       \E fallback_intent_id \in
              IF user_input.type = "NLInput" /\ nl_fallback_intents(matchable_intents) # {}
              THEN nl_fallback_intents(matchable_intents) ELSE {None} :
          /\ iu_user_input' = Some(user_input)
          /\ iu_matchable_intents' = matchable
          /\ iu_nlu_res' = nlu_res
          /\ iu_intent_scores' = intent_scores(user_input, ds_contexts, nlu_res,
                                               matchable_intents)
          /\ iu_result' = Some(IUResult(user_input, scored[1], scored[2],
                                IF nlu_res # Nothing THEN Get(nlu_res).entities ELSE {},
                                IF nlu_res # Nothing THEN Some(Get(nlu_res).nlu_result)
                                ELSE Nothing,
                                fallback_intent_id))
          /\ iu_pc' = "done"
          /\ UNCHANGED <<rankingVars, ambiguityVars, stateVars, regexVars, mapperVars, pipelineVars, patternVars, aggregateVars, phraseVars, turnVars>>

NextIU == IURun

SpecIU == InitIU /\ [][NextIU]_vars

\* the input and the result of the run a "done" state records
IUInput == Get(iu_user_input)
IURanking == Get(iu_result).intent_ranking
IUThreshold == Get(iu_result).confidence_threshold

\* a non-null trigger of intent i (NL, selection or keyed) accepts the input
Accepts(i, input) ==
    \/ input.type = "NLInput" /\ i.nl_trigger # NoTrigger
    \/ /\ input.type = "SelectionInput" /\ i.selection_trigger # NoTrigger
       /\ \/ i.selection_trigger.type = "AnySelectionTrigger"
          \/ /\ i.selection_trigger.selection_key = input.selection_key
             /\ i.selection_trigger.selection_idx = input.selection_idx
    \/ /\ input.type = "KeyedInput" /\ i.keyed_trigger # NoTrigger
       /\ i.keyed_trigger.key = input.key

\* C6: _determine_matchable_intents returns exactly the registered intents
\* whose required input contexts are all present in the dialogue state and
\* of which a non-null trigger accepts the concrete input; no other intent is
\* scored, ranked (by the NLU mapping or in the result) or made the fallback.
MatchableExactly ==
    iu_pc = "done" =>
        /\ iu_matchable_intents =
              {id \in IntentIds :
                  /\ \A c \in Intents[id].input_contexts : c \in DOMAIN ds_contexts
                  /\ Accepts(Intents[id], IUInput)}
        /\ DOMAIN iu_intent_scores \subseteq iu_matchable_intents
        /\ RefIdsOf(IURanking) \subseteq iu_matchable_intents
        /\ iu_nlu_res # Nothing =>
              RefIdsOf(Get(iu_nlu_res).intent_ranking) \subseteq iu_matchable_intents
        /\ Get(iu_result).fallback_intent_id \in iu_matchable_intents \cup {None}

\* a natural-language input in a state with verify_intent but not ask_ok:
\* "chat" is matchable, "ok.yes" lacks a context, "menu" lacks an NL trigger
MatchableExactlyWitness ==
    /\ iu_pc = "done"
    /\ IUInput.type = "NLInput"
    /\ "chat" \in iu_matchable_intents
    /\ "ok.yes" \notin iu_matchable_intents
    /\ "menu" \notin iu_matchable_intents
    /\ "chat" \in RefIdsOf(IURanking)

PerfectIntents == {id \in DOMAIN iu_intent_scores : iu_intent_scores[id].class = "PerfectScore"}

\* the score of every ranked intent, by the rule of C7 for the case at hand
ScoredByRule ==
    /\ IUInput.type # "NLInput" => PerfectIntents = iu_matchable_intents
    /\ IUInput.type = "NLInput" =>
          PerfectIntents = {id \in iu_matchable_intents :
                               Intents[id].nl_trigger.type = "AnyNLTrigger"}
    /\ RefIdsOf(IURanking) = iu_matchable_intents
    /\ \A k \in DOMAIN IURanking :
          IURanking[k].score =
              IF PerfectIntents # {}
              THEN (IF IURanking[k].ref_id \in PerfectIntents THEN One ELSE 0)
              ELSE iu_intent_scores[IURanking[k].ref_id].value
    /\ PerfectIntents # {} => IUThreshold = One

\* C7 as stated: with a PerfectScore among the matchable intents the perfect
\* ones get 1.0, the others 0 and the threshold is 1.0; otherwise every
\* ranking score is the FloatScore value and the threshold is the one the
\* NLU returned.
ScoresAndNLUThreshold ==
    iu_pc = "done" =>
        /\ ScoredByRule
        /\ PerfectIntents = {} =>
              /\ iu_nlu_res # Nothing
              /\ IUThreshold = Get(Get(iu_result).nlu_result).confidence_threshold

\* C7 as amended: as stated, but without a PerfectScore the threshold is the
\* one the NLU returned only when an NLU ran (natural-language input); for a
\* selection or keyed input that no intent matches, no NLU runs, the ranking
\* is empty and the threshold is 0.
ScoresAndThreshold ==
    iu_pc = "done" =>
        /\ ScoredByRule
        /\ (PerfectIntents = {} /\ IUInput.type = "NLInput") =>
              /\ iu_nlu_res # Nothing
              /\ IUThreshold = Get(Get(iu_result).nlu_result).confidence_threshold
        /\ (PerfectIntents = {} /\ IUInput.type # "NLInput") =>
              /\ iu_nlu_res = Nothing
              /\ iu_matchable_intents = {}
              /\ IURanking = <<>>
              /\ IUThreshold = 0

\* a natural-language input that the AnyNLTrigger intent "chat" matches: the
\* NLU scored the expression of "hello" 1.0 with threshold 0.5, and the
\* result ranks "chat" at 1.0, "hello" at 0 with threshold 1.0
ScoresAndThresholdWitness ==
    /\ iu_pc = "done"
    /\ IUInput.type = "NLInput"
    /\ "chat" \in PerfectIntents
    /\ iu_intent_scores["hello"] = FloatScore(One)
    /\ Get(Get(iu_result).nlu_result).confidence_threshold = Half
    /\ RankingScore("hello", 0) \in Range(IURanking)
    /\ IURanking[1] = RankingScore("chat", One)
    /\ IUThreshold = One

\* the lived counter of the most recently entered required input context
MostRecentLived(id) ==
    SetMin({ds_contexts[c].lived : c \in Intents[id].input_contexts})

\* intent a requires a context entered more recently than every one of b; an
\* intent without required input contexts is older than every context
EnteredLater(a, b) ==
    /\ Intents[a].input_contexts # {}
    /\ \/ Intents[b].input_contexts = {}
       \/ MostRecentLived(a) < MostRecentLived(b)

NrInputContexts(id) == Cardinality(Intents[id].input_contexts)

\* the first two keys of C4 hold between positions i < j of the ranking
ByScoreThenRecency(i, j) ==
    /\ IURanking[i].score >= IURanking[j].score
    /\ IURanking[i].score = IURanking[j].score =>
          ~EnteredLater(IURanking[j].ref_id, IURanking[i].ref_id)

FullTie(i, j) ==
    /\ IURanking[i].score = IURanking[j].score
    /\ ~EnteredLater(IURanking[j].ref_id, IURanking[i].ref_id)
    /\ ~EnteredLater(IURanking[i].ref_id, IURanking[j].ref_id)

\* C4 as stated: the ranking is ordered by score descending, then by the
\* smaller lived counter of the most recently entered required input context
\* (no required context = older than all), then by FEWER required input
\* contexts.
SortedFewerContextsFirst ==
    iu_pc = "done" =>
        \A i, j \in DOMAIN IURanking :
            i < j =>
                /\ ByScoreThenRecency(i, j)
                /\ FullTie(i, j) =>
                      NrInputContexts(IURanking[i].ref_id) <= NrInputContexts(IURanking[j].ref_id)

\* C4 as amended: the first two keys as stated; among intents equal on both,
\* the one with MORE required input contexts comes first.
SortedMoreContextsFirst ==
    iu_pc = "done" =>
        \A i, j \in DOMAIN IURanking :
            i < j =>
                /\ ByScoreThenRecency(i, j)
                /\ FullTie(i, j) =>
                      NrInputContexts(IURanking[i].ref_id) >= NrInputContexts(IURanking[j].ref_id)

\* a ranking in which "continue.yes" (two required contexts) and "ok.yes"
\* (one) tie on score and recency and are followed, for the same score, by
\* "hello", which requires no context
SortedMoreContextsFirstWitness ==
    /\ iu_pc = "done"
    /\ \E i, j, k \in DOMAIN IURanking :
          /\ i < j /\ j < k
          /\ IURanking[i].ref_id = "continue.yes"
          /\ IURanking[j].ref_id = "ok.yes"
          /\ IURanking[k].ref_id = "hello"
          /\ FullTie(i, j)
          /\ IURanking[k].score = IURanking[j].score
          /\ IURanking[k].score > 0

(***************************************************************************)
(* natural_language_understanding/regex_er.py: RegexExpressionRanker       *)
(***************************************************************************)
Utterances == {"Hello", "hello", "Huhu", "yes", "yes but no", "Hellyeah", "yeah"}

\* bool(re.match(pattern, utterance)) for the registered patterns and Utterances
re_match(pattern, utterance) ==
    <<pattern, utterance>> \in {
        <<"^Hel\\w+$", "Hello">>, <<"^Hel\\w+$", "Hellyeah">>,
        <<"^Hu\\w+$", "Huhu">>,
        <<"^yes.*$", "yes">>, <<"^yes.*$", "yes but no">>,
        <<"^\\w*yeah$", "Hellyeah">>, <<"^\\w*yeah$", "yeah">>,
        <<"^yes but.*$", "yes but no">>}

ExpressionIds == {e.id : e \in nl_expressions(Nothing)}

\* a defaultdict(set) over the expression ids: a missing key reads as set()
EmptyPatterns == [id \in ExpressionIds |-> {}]

\* create_nlu_train_test_data(env, test_size=0): the intent filter of the
\* default training data is every registered intent
DefaultTrainingIntentFilter == Some(IntentIds)

\* the two dictionaries RegexExpressionRanker.init fills
include_expression_patterns(intent_filter) ==
    [id \in ExpressionIds |->
        UNION {e.regex_patterns : e \in {x \in nl_expressions(intent_filter) : x.id = id}}]
exclude_expression_patterns(intent_filter) ==
    [id \in ExpressionIds |->
        UNION {e.exclude_regex_patterns :
                  e \in {x \in nl_expressions(intent_filter) : x.id = id}}]

\* candidate_expressions of run without the exclude patterns
candidate_expressions_include_only(include, exclude, expression_filter, utterance) ==
    {id \in expression_filter : \E p \in include[id] : re_match(p, utterance)}

\* candidate_expressions of run
candidate_expressions(include, exclude, expression_filter, utterance) ==
    {id \in expression_filter :
        /\ \E p \in include[id] : re_match(p, utterance)
        /\ ~ \E p \in exclude[id] : re_match(p, utterance)}

\* the ranking of run before completion, ranking some candidate whenever there is one
some_candidate_ranking(candidates) ==
    IF candidates # {}
    THEN <<RankingScore(CHOOSE c \in candidates : TRUE, One)>>
    ELSE <<>>

\* the ranking of run before completion: "only if unambiguous"
unambiguous_ranking(candidates) ==
    IF Cardinality(candidates) = 1
    THEN <<RankingScore(CHOOSE c \in candidates : TRUE, One)>>
    ELSE <<>>

\* RegexExpressionRanker.run from the expression filter (a list) on
RegexExpressionRanker_run(include, exclude, utterance, expression_filter) ==
    NLUResult(utterance,
              complete_ranking(
                  unambiguous_ranking(
                      candidate_expressions(include, exclude,
                                            Range(expression_filter), utterance)),
                  expression_filter, 0),
              One, {})

(***************************************************************************)
(* SpecRegex: a RegexExpressionRanker is constructed, initialised with the *)
(* default training data and run once on an utterance and an intent filter *)
(***************************************************************************)
IntentFilters == {Nothing} \cup {Some(S) : S \in SUBSET IntentIds}

InitRegex ==
    /\ RankingIdle /\ AmbiguityIdle /\ StateIdle /\ IUIdle /\ MapperIdle /\ PipelineIdle /\ PatternIdle /\ AggregateIdle /\ PhraseIdle /\ TurnIdle
    /\ rx_include = EmptyPatterns
    /\ rx_exclude = EmptyPatterns
    /\ rx_utterance = ""
    /\ rx_intent_filter = <<>>
    /\ rx_res = <<>>
    /\ rx_pc = "new"

RegexInit ==
    /\ rx_pc = "new"
    /\ rx_include' = include_expression_patterns(DefaultTrainingIntentFilter)
    /\ rx_exclude' = exclude_expression_patterns(DefaultTrainingIntentFilter)
    /\ rx_pc' = "ready"
    /\ UNCHANGED <<rx_utterance, rx_intent_filter, rx_res,
                   rankingVars, ambiguityVars, stateVars, iuVars, mapperVars, pipelineVars, patternVars, aggregateVars, phraseVars, turnVars>>

\* an intent_filter of None becomes the list of all intent ids; the order of
\* the expression filter is the order of list(set)
RegexRun ==
    /\ rx_pc = "ready"
    /\ \E utterance \in Utterances, intent_filter \in IntentFilters :
       \E ids \in {IF intent_filter = Nothing
                   THEN {i.id : i \in intents(Nothing, Nothing)}
                   ELSE Get(intent_filter)} :
       \E expression_filter \in ListsOf({e.id : e \in nl_expressions(Some(ids))}) :
          /\ rx_utterance' = utterance
          /\ rx_intent_filter' = Some(intent_filter)
          /\ rx_res' = Some(RegexExpressionRanker_run(rx_include, rx_exclude,
                                                      utterance, expression_filter))
          /\ rx_pc' = "done"
          /\ UNCHANGED <<rx_include, rx_exclude,
                         rankingVars, ambiguityVars, stateVars, iuVars, mapperVars, pipelineVars, patternVars, aggregateVars, phraseVars, turnVars>>

NextRegex == RegexInit \/ RegexRun

SpecRegex == InitRegex /\ [][NextRegex]_vars

\* the run's arguments and result, once it has returned
RegexResult == Get(rx_res)
RegexRanking == RegexResult.expression_ranking

\* the expressions of the filter: those of the intents of the intent filter
FilterExpressions ==
    IF Get(rx_intent_filter) = Nothing
    THEN nl_expressions(Nothing)
    ELSE nl_expressions(Get(rx_intent_filter))

\* the expressions of the filter with an include pattern matching the
\* utterance and no exclude pattern matching it
MatchingExpressions ==
    {e \in FilterExpressions :
        /\ \E p \in e.regex_patterns : re_match(p, rx_utterance)
        /\ \A p \in e.exclude_regex_patterns : ~ re_match(p, rx_utterance)}

\* the ranking has exactly one entry for every expression of the filter
RanksTheFilter ==
    /\ Len(RegexRanking) = Cardinality(FilterExpressions)
    /\ \A e \in FilterExpressions : \E k \in DOMAIN RegexRanking : RegexRanking[k].ref_id = e.id

\* C8: RegexExpressionRanker.run has a confident expression exactly when
\* exactly one expression of the filter matches (an include pattern matches
\* the utterance, no exclude pattern does); it is then that expression, with
\* score 1.0, and every other expression of the filter has score 0; the
\* result never has entities.
ConfidentIffOneMatch ==
    rx_pc = "done" =>
        LET conf == conf_expression(RegexResult)
        IN  /\ (conf # Nothing) <=> (Cardinality(MatchingExpressions) = 1)
            /\ conf # Nothing =>
                  /\ Get(conf).score = One
                  /\ \E e \in MatchingExpressions : e.id = Get(conf).ref_id
                  /\ RanksTheFilter
                  /\ \A k \in DOMAIN RegexRanking :
                        RegexRanking[k].ref_id # Get(conf).ref_id =>
                            RegexRanking[k].score = 0
            /\ RegexResult.entities = {}

\* exactly one of the two expressions of the filter matches
ConfidentIffOneMatchWitness ==
    /\ rx_pc = "done"
    /\ Cardinality(FilterExpressions) = 2
    /\ Cardinality(MatchingExpressions) = 1
    /\ conf_expression(RegexResult) # Nothing
    /\ RegexRanking[2].score = 0

\* C9 as stated: when more than one expression of the filter matches, the
\* returned expression ranking is empty.
AmbiguousGivesEmptyRanking ==
    (rx_pc = "done" /\ Cardinality(MatchingExpressions) > 1) => RegexRanking = <<>>

\* C9: when more than one expression of the filter matches, the returned
\* ranking has every expression of the filter once, each with score 0, and
\* there is no confident expression.
AmbiguousGivesAllZero ==
    (rx_pc = "done" /\ Cardinality(MatchingExpressions) > 1) =>
        /\ RanksTheFilter
        /\ \A k \in DOMAIN RegexRanking : RegexRanking[k].score = 0
        /\ conf_expression(RegexResult) = Nothing

AmbiguousGivesAllZeroWitness ==
    /\ rx_pc = "done"
    /\ Cardinality(MatchingExpressions) = 2
    /\ Len(RegexRanking) = 2
    /\ RegexRanking[1].score = 0

(***************************************************************************)
(* models/value.py, models/entity.py and the entity accessors of BotEnv    *)
(***************************************************************************)
\* entity_context is None or an entity id
ValueRegexPattern(value, pattern, entity_context) ==
    [value |-> value, pattern |-> pattern, entity_context |-> entity_context]

ValueSynonym(value, text, case_sensitive, entity_context) ==
    [value |-> value, text |-> text, case_sensitive |-> case_sensitive,
     entity_context |-> entity_context]

\* ValueSynonym.to_regex_pattern; re.escape leaves the letters of the
\* registered synonyms as they are
to_regex_pattern(synonym) ==
    ValueRegexPattern(synonym.value,
                      IF synonym.case_sensitive
                      THEN "\\b(?:" \o synonym.text \o ")\\b"
                      ELSE "\\b(?i:" \o synonym.text \o ")\\b",
                      synonym.entity_context)

Value(id, synonyms, regex_patterns) ==
    [id |-> id, synonyms |-> synonyms, regex_patterns |-> regex_patterns]

all_regex_patterns(v) ==
    v.regex_patterns \cup {to_regex_pattern(synonym) : synonym \in v.synonyms}

Entity(id, value_refs) == [id |-> id, value_refs |-> value_refs]

RegisteredValues == {
    Value("COUNTRY_DE",
          {ValueSynonym("COUNTRY_DE", "Deutschland", FALSE, None),
           ValueSynonym("COUNTRY_DE", "BRD", TRUE, None)},
          {ValueRegexPattern("COUNTRY_DE", "(?i:Germa\\w+)", None)}),
    Value("COUNTRY_IT",
          {ValueSynonym("COUNTRY_IT", "Italy", FALSE, None),
           ValueSynonym("COUNTRY_IT", "it", FALSE, "country")},
          {}),
    Value("PRONOUN",
          {ValueSynonym("PRONOUN", "he", FALSE, "pronoun"),
           ValueSynonym("PRONOUN", "it", FALSE, "pronoun")},
          {})}

RegisteredEntities == {
    Entity("country", {"COUNTRY_DE", "COUNTRY_IT"}),
    Entity("pronoun", {"PRONOUN"}),
    Entity("origin", {"COUNTRY_IT"})}

\* BotEnv.value
value(value_id) == CHOOSE v \in RegisteredValues : v.id = value_id

\* Entity.values
entity_values(e) == {value(value_ref) : value_ref \in e.value_refs}

\* BotEnv.entities; each filter is Nothing (no filter) or Some(set of ids)
entities(entity_filter, intent_filter) ==
    {e \in RegisteredEntities :
        /\ entity_filter # Nothing => e.id \in Get(entity_filter)
        /\ intent_filter # Nothing =>
              \E i \in intents(intent_filter, Nothing) :
                  i.entity_filter = Nothing \/ e.id \in Get(i.entity_filter)}

(***************************************************************************)
(* natural_language_understanding/tools/entity_value_mapper.py             *)
(***************************************************************************)
Texts == {"deutschland", "BRD", "brd", "germany", "germmany", "italy", "it", "he"}

\* bool(re.match(add_string_boundaries(pattern), text)) for the registered
\* patterns and Texts
re_match_with_boundaries(pattern, text) ==
    <<pattern, text>> \in {
        <<"\\b(?i:Deutschland)\\b", "deutschland">>,
        <<"\\b(?:BRD)\\b", "BRD">>,
        <<"(?i:Germa\\w+)", "germany">>,
        <<"\\b(?i:Italy)\\b", "italy">>,
        <<"\\b(?i:it)\\b", "it">>,
        <<"\\b(?i:he)\\b", "he">>}

\* EntityValueMapper.init: the set _regex_patterns
mapper_regex_patterns(intent_filter) ==
    UNION {UNION {{<<e.id, v.id, p.pattern, p.entity_context # None>> :
                      p \in {q \in all_regex_patterns(v) :
                                ~ (q.entity_context # None /\ q.entity_context # e.id)}} :
                  v \in entity_values(e)} :
           e \in entities(Nothing, intent_filter)}

\* the candidates of run without the test of the needs_context flag
mapper_candidates_any_context(regex_patterns, entity_filter, entity, text) ==
    {<<q[1], q[2]>> : q \in {x \in regex_patterns :
                                /\ x[1] \in entity_filter
                                /\ re_match_with_boundaries(x[3], text)}}

\* the candidates of run
mapper_candidates(regex_patterns, entity_filter, entity, text) ==
    {<<q[1], q[2]>> : q \in {x \in regex_patterns :
                                /\ x[1] \in entity_filter
                                /\ ~ (x[4] /\ (entity = None \/ entity # x[1]))
                                /\ re_match_with_boundaries(x[3], text)}}

\* EntityValueMapper.run
EntityValueMapper_run(regex_patterns, entity, text, intent_filter) ==
    LET entity_filter == {e.id : e \in entities(Nothing, intent_filter)}
                         \cup (IF entity # None THEN {entity} ELSE {})
        candidates == mapper_candidates(regex_patterns, entity_filter, entity, text)
    IN  IF Cardinality(candidates) = 1
        THEN LET c == CHOOSE x \in candidates : TRUE
             IN  Some([entity |-> c[1], value |-> c[2]])
        ELSE Nothing

(***************************************************************************)
(* SpecMapper: an EntityValueMapper is constructed, initialised with the   *)
(* default training data and run once                                      *)
(***************************************************************************)
EntityArguments == {None} \cup {e.id : e \in RegisteredEntities} \cup {"city"}

InitMapper ==
    /\ RankingIdle /\ AmbiguityIdle /\ StateIdle /\ IUIdle /\ RegexIdle /\ PipelineIdle /\ PatternIdle /\ AggregateIdle /\ PhraseIdle /\ TurnIdle
    /\ evm_regex_patterns = {}
    /\ evm_entity = ""
    /\ evm_text = ""
    /\ evm_intent_filter = <<>>
    /\ evm_res = <<>>
    /\ evm_pc = "new"

MapperInit ==
    /\ evm_pc = "new"
    /\ evm_regex_patterns' = mapper_regex_patterns(DefaultTrainingIntentFilter)
    /\ evm_pc' = "ready"
    /\ UNCHANGED <<evm_entity, evm_text, evm_intent_filter, evm_res,
                   rankingVars, ambiguityVars, stateVars, iuVars, regexVars, pipelineVars, patternVars, aggregateVars, phraseVars, turnVars>>

MapperRun ==
    /\ evm_pc = "ready"
    /\ \E entity \in EntityArguments, text \in Texts, intent_filter \in IntentFilters :
          /\ evm_entity' = entity
          /\ evm_text' = text
          /\ evm_intent_filter' = Some(intent_filter)
          /\ evm_res' = EntityValueMapper_run(evm_regex_patterns, entity, text, intent_filter)
          /\ evm_pc' = "done"
          /\ UNCHANGED <<evm_regex_patterns,
                         rankingVars, ambiguityVars, stateVars, iuVars, regexVars, pipelineVars, patternVars, aggregateVars, phraseVars, turnVars>>

NextMapper == MapperInit \/ MapperRun

SpecMapper == InitMapper /\ [][NextMapper]_vars

\* the arguments of the run, once it has returned
MapperIntentFilter == Get(evm_intent_filter)

\* the ids of the entities used by some intent of an intent filter (every
\* entity when there is no filter)
EntitiesUsedBy(intent_filter) ==
    {e.id : e \in {x \in RegisteredEntities :
                      intent_filter # Nothing =>
                          \E id \in Get(intent_filter) \cap IntentIds :
                              \/ intent(id).entity_filter = Nothing
                              \/ x.id \in Get(intent(id).entity_filter)}}

\* the allowed entities of the run: those the mapper was initialised with
\* that an intent of the run's intent filter uses or that the entity
\* argument names
AllowedEntities ==
    EntitiesUsedBy(DefaultTrainingIntentFilter)
        \cap (EntitiesUsedBy(MapperIntentFilter) \cup {evm_entity})

\* a pattern of a value of entity e is applicable: it has no entity context,
\* or the entity argument is given and is its entity context, e
Applicable(p, e) ==
    \/ p.entity_context = None
    \/ (evm_entity # None /\ evm_entity = p.entity_context /\ p.entity_context = e)

\* the (entity, value) pairs of the allowed entities with an applicable
\* pattern that matches the text
MatchingPairs ==
    {pair \in UNION {{<<e.id, v>> : v \in e.value_refs} :
                        e \in {x \in RegisteredEntities : x.id \in AllowedEntities}} :
        \E p \in all_regex_patterns(value(pair[2])) :
            Applicable(p, pair[1]) /\ re_match_with_boundaries(p.pattern, evm_text)}

\* C10: EntityValueMapper.run returns {entity, value} if and only if exactly
\* one (entity, value) pair of the allowed entities has an applicable pattern
\* matching the text, and then returns that pair; it returns None when no
\* pair or several pairs match.  A pattern with an entity context is
\* applicable only when the entity argument is given and equals that context.
MapsIffOnePairMatches ==
    evm_pc = "done" =>
        /\ (evm_res # Nothing) <=> (Cardinality(MatchingPairs) = 1)
        /\ evm_res # Nothing =>
              <<Get(evm_res).entity, Get(evm_res).value>> \in MatchingPairs
        /\ evm_res # Nothing =>
              \A p \in all_regex_patterns(value(Get(evm_res).value)) :
                  (/\ re_match_with_boundaries(p.pattern, evm_text)
                   /\ p.entity_context # None
                   /\ \A q \in all_regex_patterns(value(Get(evm_res).value)) :
                         re_match_with_boundaries(q.pattern, evm_text) =>
                             q.entity_context # None)
                  => evm_entity = p.entity_context

\* "it" with the entity argument "country" maps to COUNTRY_IT although the
\* pattern of PRONOUN matches too and the pronoun entity is allowed
MapsIffOnePairMatchesWitness ==
    /\ evm_pc = "done"
    /\ evm_text = "it"
    /\ evm_entity = "country"
    /\ "pronoun" \in AllowedEntities
    /\ evm_res = Some([entity |-> "country", value |-> "COUNTRY_IT"])

\* two pairs match: the run returns None
MapperAmbiguousReached ==
    /\ evm_pc = "done"
    /\ Cardinality(MatchingPairs) = 2
    /\ evm_res = Nothing

(***************************************************************************)
(* natural_language_understanding/pipeline_nlu.py: PipelineNLU             *)
(***************************************************************************)
\* the members of ExpressionUsage
ADD_SCORES == "ADD_SCORES"
PERFECT_MATCH == "PERFECT_MATCH"
FILTER_TOPK == "FILTER_TOPK"

\* an NLU of a pipeline element, by what its run returns: ranks is TRUE for
\* an NLU that returns complete_ranking(..., expression_filter) like the
\* rankers and RasaNLU and FALSE for one that returns [] like
\* RegexEntityExtractor; extracts is TRUE for an NLU that may return entities
ElementNLU(id, ranks, extracts, confidence_threshold) ==
    [id |-> id, ranks |-> ranks, extracts |-> extracts,
     confidence_threshold |-> confidence_threshold]

NLUPipelineElement(nlu, use_expressions, use_entities, expression_usage, expression_top_k) ==
    [nlu |-> nlu, use_expressions |-> use_expressions, use_entities |-> use_entities,
     expression_usage |-> expression_usage, expression_top_k |-> expression_top_k]

\* numpy.mean of a list of floats; of the empty list it is nan, modelled as a
\* number no score reaches, so that "score >= nan" is false
RECURSIVE Sum(_)
Sum(ss) == IF ss = <<>> THEN 0 ELSE Head(ss) + Sum(Tail(ss))
NaN == 1000 * One

\* numpy.mean with 0.0 for the empty list
np_mean_or_zero(ss) == IF ss = <<>> THEN 0 ELSE Sum(ss) \div Len(ss)

\* numpy.mean
np_mean(ss) == IF ss = <<>> THEN NaN ELSE Sum(ss) \div Len(ss)

\* expression_scores[ref_id] = [score] in place of the append
replace_score(expression_scores, ref_id, score) ==
    IF \E k \in DOMAIN expression_scores : expression_scores[k].id = ref_id
    THEN [k \in DOMAIN expression_scores |->
            IF expression_scores[k].id = ref_id
            THEN [id |-> ref_id, scores |-> <<score>>]
            ELSE expression_scores[k]]
    ELSE Append(expression_scores, [id |-> ref_id, scores |-> <<score>>])

\* expression_scores[ref_id].append(score) on the defaultdict(list), kept as
\* the list of its items in insertion order
append_score(expression_scores, ref_id, score) ==
    IF \E k \in DOMAIN expression_scores : expression_scores[k].id = ref_id
    THEN [k \in DOMAIN expression_scores |->
            IF expression_scores[k].id = ref_id
            THEN [id |-> ref_id, scores |-> Append(expression_scores[k].scores, score)]
            ELSE expression_scores[k]]
    ELSE Append(expression_scores, [id |-> ref_id, scores |-> <<score>>])

\* "for s in res.expression_ranking: expression_scores[s.ref_id].append(s.score)"
RECURSIVE add_scores(_, _)
add_scores(expression_scores, expression_ranking) ==
    IF expression_ranking = <<>> THEN expression_scores
    ELSE add_scores(append_score(expression_scores, Head(expression_ranking).ref_id,
                                 Head(expression_ranking).score),
                    Tail(expression_ranking))

\* the test of the PERFECT_MATCH branch with "> 1" in place of ">= 1"
is_perfect_match_above_one(res) ==
    Len(res.expression_ranking) > 0 /\ res.expression_ranking[1].score > One

\* the test of the PERFECT_MATCH branch
is_perfect_match(res) ==
    Len(res.expression_ranking) > 0 /\ res.expression_ranking[1].score >= One

\* the FILTER_TOPK branch without the slice [: element.expression_top_k]
filter_all(res, expression_top_k) ==
    {i.id : i \in intents(Nothing,
                          Some({res.expression_ranking[k].ref_id :
                                   k \in DOMAIN res.expression_ranking}))}

\* the FILTER_TOPK branch: the new curr_intent_filter
filter_topk(res, expression_top_k) ==
    LET expression_ids ==
            {res.expression_ranking[k].ref_id :
                k \in 1..Min2(expression_top_k, Len(res.expression_ranking))}
    IN  {i.id : i \in intents(Nothing, Some(expression_ids))}

\* the skip conditions with the second one not looking at use_entities
skips_after_perfect(element, perfect_expression) ==
    \/ ~ element.use_expressions /\ ~ element.use_entities
    \/ perfect_expression # None

\* the two skip conditions at the head of the loop
skips(element, perfect_expression) ==
    \/ ~ element.use_expressions /\ ~ element.use_entities
    \/ perfect_expression # None /\ ~ element.use_entities

\* the end of run, after the loop
pipeline_result(utterance, perfect_expression, expression_scores, confidence_thresholds, res_entities, expression_filter) ==
    IF perfect_expression # None
    THEN NLUResult(utterance,
                   complete_ranking(<<RankingScore(perfect_expression, One)>>,
                                    expression_filter, 0),
                   One, res_entities)
    ELSE NLUResult(utterance,
                   complete_ranking(
                       sort_expression_ranking(
                           [k \in DOMAIN expression_scores |->
                               RankingScore(expression_scores[k].id,
                                            np_mean(expression_scores[k].scores))]),
                       expression_filter, 0),
                   np_mean(confidence_thresholds), res_entities)

(***************************************************************************)
(* SpecPipeline: a PipelineNLU is constructed over one of the pipelines     *)
(* below and run once; every iteration of the loop of run is a step, and   *)
(* every call of element.nlu.run returns one of the results an NLU of      *)
(* that kind can return for the intent filter it is passed                 *)
(***************************************************************************)
RegexRankerNLU == ElementNLU("regex", TRUE, FALSE, One)
IndexRankerNLU == ElementNLU("index", TRUE, FALSE, 0)
PhraseRankerNLU == ElementNLU("phrase", TRUE, FALSE, Half)
RasaNLU == ElementNLU("rasa", TRUE, TRUE, Half)
RegexEntityExtractor == ElementNLU("entity-regex", FALSE, TRUE, One)

\* the pipelines 'rasa' and 'senttran' of DefaultIU (with a top_k that
\* narrows two expressions), a pipeline with ADD_SCORES elements that use no
\* entities around the PERFECT_MATCH one, and a pipeline with an element
\* that uses nothing, two PERFECT_MATCH elements and an unknown usage, and
\* a pipeline with ADD_SCORES elements of two thresholds before and after a
\* FILTER_TOPK element, and a pipeline of two extracting elements, the
\* first of unknown usage and using entities only, and a pipeline of the
\* regex NLUs alone, in which no element adds scores
Pipelines == {
    <<NLUPipelineElement(RegexRankerNLU, TRUE, TRUE, PERFECT_MATCH, 15),
      NLUPipelineElement(RasaNLU, TRUE, TRUE, ADD_SCORES, 15)>>,
    <<NLUPipelineElement(RegexRankerNLU, TRUE, TRUE, PERFECT_MATCH, 15),
      NLUPipelineElement(IndexRankerNLU, TRUE, TRUE, FILTER_TOPK, 1),
      NLUPipelineElement(PhraseRankerNLU, TRUE, TRUE, ADD_SCORES, 15),
      NLUPipelineElement(RegexEntityExtractor, FALSE, TRUE, ADD_SCORES, 15)>>,
    <<NLUPipelineElement(PhraseRankerNLU, TRUE, FALSE, ADD_SCORES, 15),
      NLUPipelineElement(RasaNLU, TRUE, TRUE, PERFECT_MATCH, 15),
      NLUPipelineElement(PhraseRankerNLU, TRUE, FALSE, ADD_SCORES, 15)>>,
    <<NLUPipelineElement(RegexEntityExtractor, FALSE, FALSE, ADD_SCORES, 15),
      NLUPipelineElement(IndexRankerNLU, TRUE, TRUE, PERFECT_MATCH, 15),
      NLUPipelineElement(RasaNLU, TRUE, TRUE, PERFECT_MATCH, 15),
      NLUPipelineElement(IndexRankerNLU, TRUE, TRUE, "TOP_1", 15)>>,
    <<NLUPipelineElement(PhraseRankerNLU, TRUE, FALSE, ADD_SCORES, 15),
      NLUPipelineElement(IndexRankerNLU, TRUE, FALSE, FILTER_TOPK, 1),
      NLUPipelineElement(IndexRankerNLU, TRUE, FALSE, ADD_SCORES, 15)>>,
    <<NLUPipelineElement(RegexEntityExtractor, FALSE, TRUE, "TOP_1", 15),
      NLUPipelineElement(RasaNLU, TRUE, TRUE, ADD_SCORES, 15)>>,
    <<NLUPipelineElement(RegexRankerNLU, TRUE, TRUE, PERFECT_MATCH, 15),
      NLUPipelineElement(RegexEntityExtractor, FALSE, TRUE, ADD_SCORES, 15)>>}

PipelineUtterance == "test"

\* no filter (both expressions); one expression, shared with an intent that
\* is not in the filter; one expression and an intent without expression;
\* no intent
PipelineIntentFilters ==
    {Nothing, Some({"ok.yes"}), Some({"hello", "menu"}), Some({})}

\* scores of the rankers; index scores are not bounded by 1
PipelineScores == ScoreLevels \cup {One + Half}

\* the entities an extracting NLU finds, in the order found: RasaNLU finds
\* no entity or one; the EntityValueExtractor of RegexEntityExtractor finds
\* none, the same value with the same text at two positions, or the same
\* value with two texts
ExtractedLists(nlu) ==
    IF nlu.id = "rasa"
    THEN {<<>>, <<ExtractedEntity(0, 1, "country", "COUNTRY_DE", "t", One, "rasa")>>}
    ELSE {<<>>,
          <<ExtractedEntity(0, 1, "country", "COUNTRY_DE", "t", One, None),
            ExtractedEntity(3, 4, "country", "COUNTRY_DE", "t", One, None)>>,
          <<ExtractedEntity(3, 4, "country", "COUNTRY_DE", "t", One, None),
            ExtractedEntity(1, 2, "country", "COUNTRY_DE", "e", One, None)>>}

\* the entity sets an extracting NLU returns: NLUResult.entities = set(entities)
ExtractedSets(nlu) == {python_set(l) : l \in ExtractedLists(nlu)}

\* the complete rankings over a set of expression ids, in any order
AllRankings(ids) ==
    {[k \in DOMAIN l |-> RankingScore(l[k], sc[k])] :
        l \in ListsOf(ids), sc \in [1..Cardinality(ids) -> PipelineScores]}

\* the results of nlu.run(utterance, intent_filter=intent_filter)
NLUAnswers(nlu, utterance, intent_filter) ==
    {NLUResult(utterance, r, nlu.confidence_threshold, es) :
        r \in IF nlu.ranks
              THEN AllRankings({e.id : e \in nl_expressions(Some(intent_filter))})
              ELSE {<<>>},
        es \in IF nlu.extracts THEN ExtractedSets(nlu) ELSE {{}}}

InitPipeline ==
    /\ RankingIdle /\ AmbiguityIdle /\ StateIdle /\ IUIdle /\ RegexIdle /\ MapperIdle /\ PatternIdle /\ AggregateIdle /\ PhraseIdle /\ TurnIdle
    /\ pl_elements \in Pipelines
    /\ pl_intent_filter = <<>>
    /\ pl_expression_filter = <<>>
    /\ pl_perfect_expression = None
    /\ pl_expression_scores = <<>>
    /\ pl_confidence_thresholds = <<>>
    /\ pl_entities = {}
    /\ pl_curr_intent_filter = {}
    /\ pl_i = 0
    /\ pl_calls = <<>>
    /\ pl_res = <<>>
    /\ pl_pc = "new"

\* run up to the loop: an intent_filter of None becomes the list of all
\* intent ids; the order of expression_filter is the order of list(set)
PipelineRun ==
    /\ pl_pc = "new"
    /\ \E intent_filter \in PipelineIntentFilters :
       \E ids \in {IF intent_filter = Nothing
                   THEN {i.id : i \in intents(Nothing, Nothing)}
                   ELSE Get(intent_filter)} :
       \E expression_filter \in ListsOf({e.id : e \in nl_expressions(Some(ids))}) :
          /\ pl_intent_filter' = Some(intent_filter)
          /\ pl_expression_filter' = expression_filter
          /\ pl_curr_intent_filter' = ids
          /\ pl_i' = 1
          /\ pl_pc' = "loop"
    /\ UNCHANGED <<pl_elements, pl_perfect_expression, pl_expression_scores,
                   pl_confidence_thresholds, pl_entities, pl_calls, pl_res,
                   rankingVars, ambiguityVars, stateVars, iuVars, regexVars, mapperVars, patternVars, aggregateVars, phraseVars, turnVars>>

\* an iteration of the loop that ends at one of the two "continue"
PipelineSkipElement ==
    /\ pl_pc = "loop"
    /\ pl_i <= Len(pl_elements)
    /\ skips(pl_elements[pl_i], pl_perfect_expression)
    /\ pl_i' = pl_i + 1
    /\ UNCHANGED <<pl_elements, pl_intent_filter, pl_expression_filter,
                   pl_perfect_expression, pl_expression_scores, pl_confidence_thresholds,
                   pl_entities, pl_curr_intent_filter, pl_calls, pl_res, pl_pc,
                   rankingVars, ambiguityVars, stateVars, iuVars, regexVars, mapperVars, patternVars, aggregateVars, phraseVars, turnVars>>

\* an iteration of the loop that runs the element
PipelineRunElement ==
    /\ pl_pc = "loop"
    /\ pl_i <= Len(pl_elements)
    /\ ~ skips(pl_elements[pl_i], pl_perfect_expression)
    /\ \E element \in {pl_elements[pl_i]} :
       \E res \in NLUAnswers(element.nlu, PipelineUtterance, pl_curr_intent_filter) :
       \E uses \in {element.use_expressions /\ pl_perfect_expression = None} :
          /\ pl_calls' = Append(pl_calls, [element |-> pl_i,
                                           intent_filter |-> pl_curr_intent_filter,
                                           res |-> res])
          /\ pl_expression_scores' =
                IF uses /\ element.expression_usage = ADD_SCORES
                THEN add_scores(pl_expression_scores, res.expression_ranking)
                ELSE pl_expression_scores
          /\ pl_confidence_thresholds' =
                IF uses /\ element.expression_usage = ADD_SCORES
                THEN Append(pl_confidence_thresholds, res.confidence_threshold)
                ELSE pl_confidence_thresholds
          /\ pl_perfect_expression' =
                IF uses /\ element.expression_usage = PERFECT_MATCH /\ is_perfect_match(res)
                THEN res.expression_ranking[1].ref_id
                ELSE pl_perfect_expression
          /\ pl_curr_intent_filter' =
                IF uses /\ element.expression_usage = FILTER_TOPK
                THEN filter_topk(res, element.expression_top_k)
                ELSE pl_curr_intent_filter
          /\ IF uses /\ element.expression_usage \notin {ADD_SCORES, PERFECT_MATCH, FILTER_TOPK}
             THEN \* raise AssertionError
                  /\ pl_pc' = "error"
                  /\ UNCHANGED <<pl_entities, pl_i>>
             ELSE /\ pl_entities' = IF element.use_entities
                                    THEN set_update(pl_entities, res.entities)
                                    ELSE pl_entities
                  /\ pl_i' = pl_i + 1
                  /\ UNCHANGED pl_pc
    /\ UNCHANGED <<pl_elements, pl_intent_filter, pl_expression_filter, pl_res,
                   rankingVars, ambiguityVars, stateVars, iuVars, regexVars, mapperVars, patternVars, aggregateVars, phraseVars, turnVars>>

\* the end of run, after the loop
PipelineReturn ==
    /\ pl_pc = "loop"
    /\ pl_i > Len(pl_elements)
    /\ pl_res' = Some(pipeline_result(PipelineUtterance, pl_perfect_expression,
                                      pl_expression_scores, pl_confidence_thresholds,
                                      pl_entities, pl_expression_filter))
    /\ pl_pc' = "done"
    /\ UNCHANGED <<pl_elements, pl_intent_filter, pl_expression_filter,
                   pl_perfect_expression, pl_expression_scores, pl_confidence_thresholds,
                   pl_entities, pl_curr_intent_filter, pl_i, pl_calls,
                   rankingVars, ambiguityVars, stateVars, iuVars, regexVars, mapperVars, patternVars, aggregateVars, phraseVars, turnVars>>

NextPipeline ==
    \/ PipelineRun
    \/ PipelineSkipElement
    \/ PipelineRunElement
    \/ PipelineReturn

SpecPipeline == InitPipeline /\ [][NextPipeline]_vars

\* the result of the run, once it has returned
PipelineResult == Get(pl_res)

\* the calls in which a PERFECT_MATCH element whose expressions are used
\* returned a ranking whose first entry has a score of at least 1
PerfectCalls ==
    {k \in DOMAIN pl_calls :
        /\ pl_elements[pl_calls[k].element].use_expressions
        /\ pl_elements[pl_calls[k].element].expression_usage = PERFECT_MATCH
        /\ Len(pl_calls[k].res.expression_ranking) > 0
        /\ pl_calls[k].res.expression_ranking[1].score >= One}

\* the first of them: the one that sets the perfect match
FirstPerfectCall == CHOOSE k \in PerfectCalls : \A j \in PerfectCalls : k <= j

\* C1: when a PERFECT_MATCH element returns a ranking whose first entry has
\* a score of at least 1 (with several such elements: the first of them, the
\* one whose expressions are still used), the result of PipelineNLU.run has
\* that expression first with score 1.0, every other expression of the
\* expression filter once with score 0 and nothing else, and the confidence
\* threshold 1.0, whatever the elements before and after it return.
PerfectMatchDecides ==
    (pl_pc = "done" /\ PerfectCalls # {}) =>
        LET perfect == pl_calls[FirstPerfectCall].res.expression_ranking[1].ref_id
            ranking == PipelineResult.expression_ranking
        IN  /\ Len(ranking) = Cardinality(Range(pl_expression_filter))
            /\ ranking[1] = RankingScore(perfect, One)
            /\ \A id \in Range(pl_expression_filter) \ {perfect} :
                  \E k \in DOMAIN ranking : ranking[k] = RankingScore(id, 0)
            /\ PipelineResult.confidence_threshold = One

\* a perfect match above 1.0 for one expression, after which an ADD_SCORES
\* element scores the other expression best
PerfectMatchDecidesWitness ==
    /\ pl_pc = "done"
    /\ PerfectCalls # {}
    /\ pl_calls[FirstPerfectCall].res.expression_ranking[1].score > One
    /\ \E k \in DOMAIN pl_calls :
          /\ k > FirstPerfectCall
          /\ pl_elements[pl_calls[k].element].expression_usage = ADD_SCORES
          /\ pl_elements[pl_calls[k].element].use_expressions
          /\ pl_calls[k].res.expression_ranking[1].score >= One
          /\ pl_calls[k].res.expression_ranking[1].ref_id #
                pl_calls[FirstPerfectCall].res.expression_ranking[1].ref_id
    /\ Len(PipelineResult.expression_ranking) = 2

(***************************************************************************)
(* models/phrase.py: PhraseEntity, Phrase                                  *)
(***************************************************************************)
PhraseEntity(start, end, entity_id, value_id) ==
    [start |-> start, end |-> end, entity |-> entity_id, value |-> value_id]

\* Phrase.annotate on the list self.entities: the new list
annotate(phrase_entities, entity) ==
    LET before == SelectSeq(phrase_entities, LAMBDA e : e.end <= entity.start)
        after == SelectSeq(phrase_entities, LAMBDA e : e.start >= entity.end)
    IN  IF Len(before) + Len(after) = Len(phrase_entities)
        THEN before \o <<entity>> \o after
        ELSE phrase_entities

\* the loop "for entity in entities: self.annotate(entity)" of
\* Phrase.__init__, which runs over the argument list while self.entities
\* starts as that same list
RECURSIVE annotate_all(_, _)
annotate_all(phrase_entities, todo) ==
    IF todo = <<>> THEN phrase_entities
    ELSE annotate_all(annotate(phrase_entities, Head(todo)), Tail(todo))

\* Phrase.__init__
Phrase(expression_id, text, phrase_entities) ==
    [expression_id |-> expression_id, text |-> text,
     entities |-> annotate_all(phrase_entities, phrase_entities)]

(***************************************************************************)
(* models/pattern.py: PhrasePattern, with utils/text.py: replace_spans     *)
(*                                                                         *)
(* A pattern is kept as the list of its parts, as split_to_parts cuts it   *)
(* at the matches of ENTITY_PLACEHOLDER_PATTERN: a text part, or the       *)
(* placeholder "((entity))" of an entity id.  An expanded pattern has, in  *)
(* place of each placeholder, an annotation "[surface][value](entity)".    *)
(***************************************************************************)
TextPart(text) == [kind |-> "text", text |-> text]
Placeholder(entity_id) == [kind |-> "placeholder", entity |-> entity_id]
Annotation(surface, value_id, entity_id) ==
    [kind |-> "annotation", surface |-> surface, value |-> value_id, entity |-> entity_id]

PhrasePattern(expression_id, pattern) ==
    [expression_id |-> expression_id, pattern |-> pattern]

\* the first n items of a list, all of them when n is None: the two
\* "if (max is not None) and (max <= nr): break" of _expand_entity_placeholders
\* and the slice res[:max_realizations] of replace_spans
Take(seq, n) ==
    IF n = Nothing THEN seq ELSE SubSeq(seq, 1, Min2(Get(n), Len(seq)))

RECURSIVE Flatten(_)
Flatten(seqs) == IF seqs = <<>> THEN <<>> ELSE Head(seqs) \o Flatten(Tail(seqs))

\* repl_values of one placeholder: values and synonyms are lists in the
\* iteration order of entity.values and value.synonyms
repl_values(entity_id, values, synonyms, max_entity_values, max_value_synonyms) ==
    LET used_values == Take(values[entity_id], max_entity_values)
    IN  Flatten([k \in DOMAIN used_values |->
            LET used_synonyms == Take(synonyms[used_values[k]], max_value_synonyms)
            IN  [j \in DOMAIN used_synonyms |->
                    Annotation(used_synonyms[j].text, used_synonyms[j].value, entity_id)]])

\* itertools.product of the value lists, in its order: the last list varies fastest
RECURSIVE product(_)
product(lists) ==
    IF lists = <<>> THEN <<(<<>>)>>
    ELSE LET rest == product(Tail(lists))
         IN  Flatten([k \in DOMAIN Head(lists) |->
                        [j \in DOMAIN rest |-> <<Head(lists)[k]>> \o rest[j]]])

\* realize: the pattern with its placeholders, in order, replaced by the chosen values
RECURSIVE realize(_, _)
realize(pattern, chosen) ==
    IF pattern = <<>> THEN <<>>
    ELSE IF Head(pattern).kind = "placeholder"
         THEN <<Head(chosen)>> \o realize(Tail(pattern), Tail(chosen))
         ELSE <<Head(pattern)>> \o realize(Tail(pattern), chosen)

\* replace_spans(inp, replacements, max_realizations=...) in its default
\* mode (random_mode False, shuffle True) up to the shuffle: every
\* realization, in the order of itertools.product
realizations(pattern, values, synonyms, max_entity_values, max_value_synonyms) ==
    LET placeholders == SelectSeq(pattern, LAMBDA part : part.kind = "placeholder")
        replacements == [k \in DOMAIN placeholders |->
                            repl_values(placeholders[k].entity, values, synonyms,
                                        max_entity_values, max_value_synonyms)]
        choices == product(replacements)
    IN  [k \in DOMAIN choices |-> realize(pattern, choices[k])]

\* random.shuffle(res) by the permutation perm, without res[:max_realizations]
shuffle_without_cut(res, perm, max_realizations) ==
    [k \in DOMAIN res |-> res[perm[k]]]

\* random.shuffle(res) by the permutation perm, then res[:max_realizations]
shuffle_and_cut(res, perm, max_realizations) ==
    Take([k \in DOMAIN res |-> res[perm[k]]], max_realizations)

\* _phrase_from_pattern: text and entities of an expanded pattern
RECURSIVE phrase_text(_)
phrase_text(expanded) ==
    IF expanded = <<>> THEN ""
    ELSE (IF Head(expanded).kind = "annotation"
          THEN Head(expanded).surface ELSE Head(expanded).text)
         \o phrase_text(Tail(expanded))

RECURSIVE phrase_entities_from(_, _)
phrase_entities_from(expanded, start) ==
    IF expanded = <<>> THEN <<>>
    ELSE IF Head(expanded).kind = "annotation"
         THEN <<PhraseEntity(start, start + Len(Head(expanded).surface),
                             Head(expanded).entity, Head(expanded).value)>>
              \o phrase_entities_from(Tail(expanded), start + Len(Head(expanded).surface))
         ELSE phrase_entities_from(Tail(expanded), start + Len(Head(expanded).text))

phrase_from_pattern(expression_id, expanded) ==
    Phrase(expression_id, phrase_text(expanded), phrase_entities_from(expanded, 0))

(***************************************************************************)
(* SpecPattern: generate_phrases is called once on a pattern, with the     *)
(* registered entities and values, and its generator is read to the end    *)
(***************************************************************************)
MaxPhrases == 3
MaxEntityValues == 1
MaxValueSynonyms == 1

\* patterns without placeholder, with one, with two of different entities
\* and with two of the same entity
PhrasePatterns == {
    PhrasePattern("hello-expression", <<TextPart("Hello")>>),
    PhrasePattern("live-expression", <<TextPart("I live in "), Placeholder("country")>>),
    PhrasePattern("from-expression",
                  <<Placeholder("pronoun"), TextPart(" is from "), Placeholder("origin")>>),
    PhrasePattern("move-expression",
                  <<TextPart("from "), Placeholder("origin"), TextPart(" to "),
                    Placeholder("origin"), TextPart("!")>>)}

\* None or a number up to max
OptionalUpTo(max) == {Nothing} \cup {Some(n) : n \in 0..max}

\* the orders in which the sets Entity.value_refs and Value.synonyms can be iterated
ValueOrders ==
    {f \in [{e.id : e \in RegisteredEntities} -> UNION {ListsOf(e.value_refs) : e \in RegisteredEntities}] :
        \A e \in RegisteredEntities : f[e.id] \in ListsOf(e.value_refs)}
SynonymOrders ==
    {f \in [{v.id : v \in RegisteredValues} -> UNION {ListsOf(v.synonyms) : v \in RegisteredValues}] :
        \A v \in RegisteredValues : f[v.id] \in ListsOf(v.synonyms)}

InitPattern ==
    /\ RankingIdle /\ AmbiguityIdle /\ StateIdle /\ IUIdle /\ RegexIdle /\ MapperIdle /\ PipelineIdle /\ AggregateIdle /\ PhraseIdle /\ TurnIdle
    /\ pp_pattern \in PhrasePatterns
    /\ pp_max_phrases \in OptionalUpTo(MaxPhrases)
    /\ pp_max_entity_values \in OptionalUpTo(MaxEntityValues)
    /\ pp_max_value_synonyms \in OptionalUpTo(MaxValueSynonyms)
    /\ pp_value_order \in ValueOrders
    /\ pp_synonym_order \in SynonymOrders
    /\ pp_res = <<>>
    /\ pp_pc = "ready"

GeneratePhrases ==
    /\ pp_pc = "ready"
    /\ \E all \in {realizations(pp_pattern.pattern, pp_value_order, pp_synonym_order,
                                pp_max_entity_values, pp_max_value_synonyms)} :
       \E perm \in ListsOf(DOMAIN all) :
       \E expanded \in {shuffle_and_cut(all, perm, pp_max_phrases)} :
          pp_res' = [k \in DOMAIN expanded |->
                        phrase_from_pattern(pp_pattern.expression_id, expanded[k])]
    /\ pp_pc' = "done"
    /\ UNCHANGED <<pp_pattern, pp_max_phrases, pp_max_entity_values, pp_max_value_synonyms,
                   pp_value_order, pp_synonym_order,
                   rankingVars, ambiguityVars, stateVars, iuVars, regexVars, mapperVars,
                   pipelineVars, aggregateVars, phraseVars, turnVars>>

NextPattern == GeneratePhrases

SpecPattern == InitPattern /\ [][NextPattern]_vars

\* the number of (value, synonym) candidates of an entity: the synonyms of
\* its values, counting the first max_entity_values values only and of each
\* the first max_value_synonyms synonyms only
NrCandidates(entity_id) ==
    LET counted == IF pp_max_entity_values = Nothing
                   THEN pp_value_order[entity_id]
                   ELSE SubSeq(pp_value_order[entity_id], 1,
                               Min2(Get(pp_max_entity_values), Len(pp_value_order[entity_id])))
    IN  Sum([k \in DOMAIN counted |->
                IF pp_max_value_synonyms = Nothing
                THEN Cardinality(value(counted[k]).synonyms)
                ELSE Min2(Get(pp_max_value_synonyms),
                          Cardinality(value(counted[k]).synonyms))])

RECURSIVE ProductOf(_)
ProductOf(ns) == IF ns = <<>> THEN 1 ELSE Head(ns) * ProductOf(Tail(ns))

\* N: the product of the candidate numbers over the placeholders of the pattern
NrRealizations ==
    ProductOf([k \in DOMAIN pp_pattern.pattern |->
                  IF pp_pattern.pattern[k].kind = "placeholder"
                  THEN NrCandidates(pp_pattern.pattern[k].entity)
                  ELSE 1])

\* the values of an entity that appear in the generated phrases
ValuesIn(entity_id) ==
    {e.value : e \in {x \in UNION {Range(pp_res[k].entities) : k \in DOMAIN pp_res} :
                         x.entity = entity_id}}

\* C11: generate_phrases yields exactly min(max_phrases, N) phrases, N when
\* max_phrases is None, N being the product over the placeholders of the
\* number of (value, synonym) candidates of the entity under the two caps;
\* with max_entity_values = k at most k values of an entity appear in all
\* the phrases together.
YieldsMinOfCapAndProduct ==
    pp_pc = "done" =>
        /\ Len(pp_res) = IF pp_max_phrases = Nothing THEN NrRealizations
                         ELSE Min2(Get(pp_max_phrases), NrRealizations)
        /\ pp_max_entity_values # Nothing =>
              \A e \in RegisteredEntities :
                  Cardinality(ValuesIn(e.id)) <= Get(pp_max_entity_values)

\* a pattern with two placeholders whose phrases are cut by max_phrases
YieldsMinOfCapAndProductWitness ==
    /\ pp_pc = "done"
    /\ Cardinality({k \in DOMAIN pp_pattern.pattern :
                       pp_pattern.pattern[k].kind = "placeholder"}) = 2
    /\ pp_max_phrases # Nothing
    /\ 0 < Get(pp_max_phrases)
    /\ Get(pp_max_phrases) < NrRealizations
    /\ Len(pp_res) = Get(pp_max_phrases)

\* max_entity_values keeps one of the two values of an entity
OneValueOfTwoReached ==
    /\ pp_pc = "done"
    /\ pp_max_entity_values = Some(1)
    /\ Cardinality(ValuesIn("country")) = 1
    /\ Len(pp_res) >= 1

\* the calls of an ADD_SCORES element whose expressions are used
AddCalls ==
    {k \in DOMAIN pl_calls :
        /\ pl_elements[pl_calls[k].element].use_expressions
        /\ pl_elements[pl_calls[k].element].expression_usage = ADD_SCORES}

\* the calls among them that scored the expression id
ScoringCalls(id) ==
    {k \in AddCalls :
        \E j \in DOMAIN pl_calls[k].res.expression_ranking :
            pl_calls[k].res.expression_ranking[j].ref_id = id}

\* the score the call k gave the expression id
ScoreIn(k, id) ==
    LET ranking == pl_calls[k].res.expression_ranking
    IN  ranking[CHOOSE j \in DOMAIN ranking : ranking[j].ref_id = id].score

\* the mean of the scores the scoring calls gave the expression id
MeanScore(id) ==
    Sum([k \in DOMAIN pl_calls |-> IF k \in ScoringCalls(id) THEN ScoreIn(k, id) ELSE 0])
        \div Cardinality(ScoringCalls(id))

\* the mean of the thresholds of the results of the ADD_SCORES calls
MeanThreshold ==
    Sum([k \in DOMAIN pl_calls |->
            IF k \in AddCalls THEN pl_calls[k].res.confidence_threshold ELSE 0])
        \div Cardinality(AddCalls)

\* C12: when no perfect match is set, the score the result of
\* PipelineNLU.run gives an expression of the expression filter is the mean
\* of the scores given to it by the ADD_SCORES elements that scored it, and
\* the confidence threshold of the result is the mean of the thresholds of
\* the ADD_SCORES elements that contributed (read for at least one of them).
ScoresAreMeans ==
    (pl_pc = "done" /\ PerfectCalls = {}) =>
        /\ \A id \in Range(pl_expression_filter) :
              ScoringCalls(id) # {} =>
                 /\ \E k \in DOMAIN PipelineResult.expression_ranking :
                       PipelineResult.expression_ranking[k] = RankingScore(id, MeanScore(id))
                 /\ Cardinality({k \in DOMAIN PipelineResult.expression_ranking :
                                    PipelineResult.expression_ranking[k].ref_id = id}) = 1
        /\ AddCalls # {} => PipelineResult.confidence_threshold = MeanThreshold

\* two ADD_SCORES elements with different thresholds; one expression is
\* scored by both of them with different scores, the other one by the first
\* of them only
ScoresAreMeansWitness ==
    /\ pl_pc = "done"
    /\ PerfectCalls = {}
    /\ Cardinality(AddCalls) = 2
    /\ \E k1, k2 \in AddCalls :
          pl_calls[k1].res.confidence_threshold # pl_calls[k2].res.confidence_threshold
    /\ \E id1, id2 \in Range(pl_expression_filter) :
          /\ Cardinality(ScoringCalls(id1)) = 2
          /\ Cardinality(ScoringCalls(id2)) = 1
          /\ \E k1, k2 \in ScoringCalls(id1) : ScoreIn(k1, id1) > ScoreIn(k2, id1)
          /\ ScoreIn(CHOOSE k \in ScoringCalls(id2) : TRUE, id2) > 0

\* the calls of a FILTER_TOPK element whose expressions are used while no
\* perfect match is set
FilterCalls ==
    {k \in DOMAIN pl_calls :
        /\ pl_elements[pl_calls[k].element].use_expressions
        /\ pl_elements[pl_calls[k].element].expression_usage = FILTER_TOPK
        /\ \A j \in PerfectCalls : j > k}

\* the first top_k expressions of the ranking the call k returned
TopK(k) ==
    LET ranking == pl_calls[k].res.expression_ranking
        top_k == pl_elements[pl_calls[k].element].expression_top_k
    IN  {ranking[j].ref_id : j \in {j \in DOMAIN ranking : j <= top_k}}

\* the intents whose phrase trigger is bound to one of the expressions ids
BoundTo(ids) ==
    {i.id : i \in {j \in RegisteredIntents :
                      IsPhraseIntent(j) /\ j.nl_trigger.expression.id \in ids}}

\* the intent filter run was called with, None being all intents
Unnarrowed ==
    IF Get(pl_intent_filter) = Nothing THEN IntentIds ELSE Get(Get(pl_intent_filter))

\* C13: after a FILTER_TOPK element has run with its expressions used and
\* no perfect match yet, every later element is run with an intent filter
\* that holds only intents whose phrase trigger is bound to one of the first
\* top_k expressions the element ranked; the element itself and the
\* elements before it are run with the unnarrowed filter.
LaterElementsGetTopKIntents ==
    pl_intent_filter # <<>> =>
        \A k \in FilterCalls :
            /\ \A j \in DOMAIN pl_calls :
                  j > k => pl_calls[j].intent_filter \subseteq BoundTo(TopK(k))
            /\ \A j \in DOMAIN pl_calls :
                  j <= k => pl_calls[j].intent_filter = Unnarrowed

\* a filter with intents of both expressions is narrowed to the intents of
\* the first expression of the ranking, between two elements that are run
LaterElementsGetTopKIntentsWitness ==
    /\ pl_pc = "done"
    /\ \E k \in FilterCalls :
          /\ Len(pl_calls[k].res.expression_ranking) = 2
          /\ \E j \in DOMAIN pl_calls : j < k
          /\ \E j \in DOMAIN pl_calls :
                /\ j > k
                /\ pl_calls[j].intent_filter # {}
                /\ pl_calls[j].intent_filter # Unnarrowed
                /\ BoundTo(Range(pl_expression_filter)) \ pl_calls[j].intent_filter # {}

\* two extracted entities with the same entity, value and text
SameKey(e1, e2) ==
    e1.entity = e2.entity /\ e1.value = e2.value /\ e1.text = e2.text

\* the elements the loop of run has gone through
Processed ==
    {e \in DOMAIN pl_elements : e < pl_i \/ (e = pl_i /\ pl_pc = "error")}

\* the run of the element e was called
Called(e) == \E k \in DOMAIN pl_calls : pl_calls[k].element = e

\* a perfect match has been set by an element before the element e
PerfectBefore(e) == \E k \in PerfectCalls : pl_calls[k].element < e

\* the calls of elements run after a perfect match has been set
CallsAfterPerfect == {k \in DOMAIN pl_calls : PerfectBefore(pl_calls[k].element)}

\* the number of scores kept in expression_scores
NrScores ==
    Sum([k \in DOMAIN pl_expression_scores |-> Len(pl_expression_scores[k].scores)])

\* C14: an element's run is called if and only if the element uses
\* expressions or entities and, once a perfect match has been set by an
\* earlier element, it uses entities; an element run after a perfect match
\* adds its entities to the result, while its scores and its threshold are
\* not kept and the intent filter of the next elements is not narrowed.
RunIffUsedAndEntitiesAfterPerfect ==
    With(CallsAfterPerfect, LAMBDA after :
    With(AddCalls \ after, LAMBDA kept :
        /\ \A e \in Processed :
              Called(e) <=>
                 /\ pl_elements[e].use_expressions \/ pl_elements[e].use_entities
                 /\ PerfectBefore(e) => pl_elements[e].use_entities
        /\ \A k \in after :
              /\ pl_pc = "done" =>
                    \A e \in pl_calls[k].res.entities :
                        \E x \in PipelineResult.entities : SameKey(x, e)
              /\ \A j \in DOMAIN pl_calls :
                    j > k => pl_calls[j].intent_filter = pl_calls[k].intent_filter
        /\ Len(pl_confidence_thresholds) = Cardinality(kept)
        /\ NrScores =
              Sum([k \in DOMAIN pl_calls |->
                      IF k \in kept
                      THEN Len(pl_calls[k].res.expression_ranking) ELSE 0])))

\* after a perfect match a FILTER_TOPK element is run and returns a ranking
\* of two expressions, an ADD_SCORES element is run after it and returns a
\* ranking, and an element run after the perfect match returns an entity
RunIffUsedAndEntitiesAfterPerfectWitness ==
    /\ pl_pc = "done"
    /\ \E k \in CallsAfterPerfect : pl_calls[k].res.entities # {}
    /\ \E k \in CallsAfterPerfect :
          /\ pl_elements[pl_calls[k].element].expression_usage = FILTER_TOPK
          /\ Len(pl_calls[k].res.expression_ranking) = 2
          /\ \E j \in CallsAfterPerfect :
                /\ j > k
                /\ pl_elements[pl_calls[j].element].expression_usage = ADD_SCORES
                /\ pl_elements[pl_calls[j].element].use_expressions
                /\ Len(pl_calls[j].res.expression_ranking) = 2
    /\ PipelineResult.entities # {}

\* an element that uses expressions only is not run after a perfect match,
\* and an element that uses nothing is not run
SkippedElementsReached ==
    /\ pl_pc = "done"
    /\ \E e \in Processed :
          PerfectBefore(e) /\ pl_elements[e].use_expressions /\ ~ Called(e)

(***************************************************************************)
(* utils/lists.py: list_aggregate_func; phrase_er.py, index_er.py: the run *)
(* of PhraseExpressionRanker and IndexExpressionRanker                     *)
(***************************************************************************)
\* sorted(lst)
SortedList(lst) ==
    LET pos(i) == 1 + Cardinality({j \in DOMAIN lst :
                                      lst[j] < lst[i] \/ (lst[j] = lst[i] /\ j < i)})
    IN  [p \in DOMAIN lst |-> lst[CHOOSE i \in DOMAIN lst : pos(i) = p]]

\* statistics.median of a list that is not empty
median(lst) ==
    LET s == SortedList(lst)
        n == Len(lst)
    IN  IF n % 2 = 1 THEN s[(n + 1) \div 2]
        ELSE (s[n \div 2] + s[n \div 2 + 1]) \div 2

\* list_aggregate_func(function)(lst): Some(value), or Nothing when
\* list_aggregate_func raises ValueError('Invalid function')
list_aggregate_func(function, lst) ==
    IF function = "max" THEN Some(SetMax(Range(lst)))
    ELSE IF function = "min" THEN Some(SetMin(Range(lst)))
    ELSE IF function = "mean" THEN Some(np_mean(lst))
    ELSE IF function = "sum" THEN Some(Sum(lst))
    ELSE IF function = "median" THEN Some(median(lst))
    ELSE Nothing

\* "expression_scores[id] = expression_scores.get(id, []) + [score]" for
\* every phrase found, in the order found
found_scores(found) ==
    add_scores(<<>>, [k \in DOMAIN found |->
                         RankingScore(found[k].expression, found[k].score)])

\* list_aggregate_func called at construction of the ranker
ranker_fails_eagerly(aggregation, expression_scores) ==
    list_aggregate_func(aggregation, <<0>>) = Nothing

\* the loop "for k, vs in expression_scores.items()" raises: its body calls
\* list_aggregate_func, so an empty dict raises nothing
ranker_fails(aggregation, expression_scores) ==
    /\ expression_scores # <<>>
    /\ list_aggregate_func(aggregation, expression_scores[1].scores) = Nothing

\* the run of the ranker when the loop does not raise
ExpressionRanker_run(utterance, aggregation, expression_scores, expression_filter, confidence_threshold) ==
    NLUResult(utterance,
              complete_ranking(
                  sort_expression_ranking(
                      [k \in DOMAIN expression_scores |->
                          RankingScore(expression_scores[k].id,
                                       Get(list_aggregate_func(aggregation,
                                                               expression_scores[k].scores)))]),
                  expression_filter, 0),
              confidence_threshold, {})

(***************************************************************************)
(* SpecConfig: either a PipelineNLU over a pipeline that holds an element  *)
(* of unknown usage is run, or a ranker constructed with some aggregation  *)
(* name is run once on what its query finds                                *)
(***************************************************************************)
MaxFound == 2

Aggregations == {"max", "min", "mean", "sum", "median", "avg", "MAX"}

UnknownUsage(element) ==
    element.expression_usage \notin {ADD_SCORES, PERFECT_MATCH, FILTER_TOPK}

\* the lists of at most MaxFound phrases of the expressions ids, with the
\* similarity of each
FoundLists(ids) ==
    UNION {[1..n -> [expression : ids, score : ScoreLevels]] : n \in 0..MaxFound}

InitAggregate ==
    /\ RankingIdle /\ AmbiguityIdle /\ StateIdle /\ IUIdle /\ RegexIdle /\ MapperIdle /\ PipelineIdle /\ PatternIdle /\ PhraseIdle /\ TurnIdle
    /\ ag_aggregation \in Aggregations
    /\ ag_intent_filter \in {IntentIds, {"ok.yes"}, {"hello", "menu"}, {"menu"}}
    /\ ag_found \in FoundLists({e.id : e \in nl_expressions(Some(ag_intent_filter))})
    /\ ag_res = <<>>
    /\ ag_pc = "ready"

InitConfig ==
    \/ /\ InitPipeline
       /\ \E e \in DOMAIN pl_elements : UnknownUsage(pl_elements[e])
    \/ InitAggregate

\* PhraseExpressionRanker.run; IndexExpressionRanker.run is the same with
\* the threshold 0
RankerRun ==
    /\ ag_pc = "ready"
    /\ \E expression_filter \in ListsOf({e.id : e \in nl_expressions(Some(ag_intent_filter))}) :
       \E expression_scores \in {found_scores(ag_found)} :
          IF ranker_fails(ag_aggregation, expression_scores)
          THEN /\ ag_pc' = "error"
               /\ UNCHANGED ag_res
          ELSE /\ ag_res' = Some(ExpressionRanker_run(PipelineUtterance, ag_aggregation,
                                                      expression_scores, expression_filter,
                                                      PhraseRankerNLU.confidence_threshold))
               /\ ag_pc' = "done"
    /\ UNCHANGED <<ag_aggregation, ag_intent_filter, ag_found,
                   rankingVars, ambiguityVars, stateVars, iuVars, regexVars, mapperVars, pipelineVars, patternVars, phraseVars, turnVars>>

NextConfig ==
    \/ NextPipeline
    \/ RankerRun

SpecConfig == InitConfig /\ [][NextConfig]_vars

\* the run reached an element of unknown usage whose expressions are used:
\* it is not skipped, it uses expressions and no perfect match is set
ReachedUnknownUsage ==
    \E e \in Processed :
        /\ UnknownUsage(pl_elements[e])
        /\ pl_elements[e].use_expressions
        /\ ~ PerfectBefore(e)

\* C15 as stated: a run of a pipeline that holds an element of unknown
\* usage never returns a result, and a run of a ranker constructed with an
\* unknown aggregation name never returns a ranking.
UnknownConfigurationNeverReturns ==
    /\ (pl_pc = "done" => \A e \in DOMAIN pl_elements : ~ UnknownUsage(pl_elements[e]))
    /\ (ag_pc = "done" => ag_aggregation \in {"max", "min", "mean", "median", "sum"})

\* C15 (amended): PipelineNLU.run fails with an assertion error exactly when
\* its loop reaches an element of unknown usage that uses expressions while
\* no perfect match is set, and returns a result otherwise; a ranker with an
\* unknown aggregation name fails with ValueError exactly when its query
\* finds a phrase, and otherwise returns the ranking that gives every
\* expression of the filter the score 0.
UnknownConfigurationFailsWhenUsed ==
    /\ pl_pc = "error" <=> ReachedUnknownUsage
    /\ ag_pc \in {"done", "error"} =>
          /\ ag_pc = "error" <=>
                (ag_aggregation \notin {"max", "min", "mean", "median", "sum"} /\ ag_found # <<>>)
          /\ (ag_pc = "done" /\ ag_found = <<>>) =>
                /\ Len(Get(ag_res).expression_ranking) =
                      Cardinality({e.id : e \in nl_expressions(Some(ag_intent_filter))})
                /\ \A k \in DOMAIN Get(ag_res).expression_ranking :
                      Get(ag_res).expression_ranking[k].score = 0

\* a ranker with an unknown aggregation name whose query finds nothing for
\* a filter with two expressions returns a ranking
UnknownConfigurationFailsWhenUsedWitness ==
    /\ ag_pc = "done"
    /\ ag_aggregation = "avg"
    /\ ag_found = <<>>
    /\ Len(Get(ag_res).expression_ranking) = 2

\* a pipeline with an element of unknown usage returns a result after a
\* perfect match
UnknownUsageReturnsReached ==
    /\ pl_pc = "done"
    /\ \E e \in DOMAIN pl_elements :
          UnknownUsage(pl_elements[e]) /\ pl_elements[e].use_expressions /\ Called(e)

\* the two errors
UnknownUsageFailsReached == pl_pc = "error"
UnknownAggregationFailsReached == ag_pc = "error" /\ Len(ag_found) = 2

\* the entities returned by the calls of the elements that use entities
YieldedEntities ==
    UNION {pl_calls[k].res.entities :
              k \in {j \in DOMAIN pl_calls : pl_elements[pl_calls[j].element].use_entities}}

\* C16: two ExtractedEntity objects are equal, and hash alike, if and only
\* if their entity, value and text are equal, whatever their spans,
\* confidences and extractors; the entity set PipelineNLU.run returns holds
\* exactly one entity for every (entity, value, text) an element that uses
\* entities yielded, and that entity is one of those yielded.
OneEntityPerKey ==
    /\ \A e1, e2 \in YieldedEntities :
          /\ ExtractedEntity_eq(e1, e2) <=>
                SameKey(e1, e2)
          /\ (ExtractedEntity_hash(e1) = ExtractedEntity_hash(e2)) <=>
                SameKey(e1, e2)
    /\ \A k \in DOMAIN pl_calls :
          \A e1, e2 \in pl_calls[k].res.entities :
              SameKey(e1, e2) => e1 = e2
    /\ pl_pc = "done" =>
          /\ PipelineResult.entities \subseteq YieldedEntities
          /\ \A e1, e2 \in PipelineResult.entities :
                SameKey(e1, e2) => e1 = e2
          /\ \A e \in YieldedEntities :
                \E x \in PipelineResult.entities :
                    SameKey(x, e)

\* two elements yield the same (entity, value, text) with different spans
\* and extractors, one of them also with another text; the result holds
\* two entities
OneEntityPerKeyWitness ==
    /\ pl_pc = "done"
    /\ \E e1, e2 \in YieldedEntities :
          /\ SameKey(e1, e2)
          /\ e1.start # e2.start
          /\ e1.extractor # e2.extractor
    /\ Cardinality(PipelineResult.entities) = 2
    /\ Cardinality(YieldedEntities) = 3

\* the intents that are matchable for the input of the run: every input
\* context is in the dialogue state and a trigger accepts the input
MatchableByRule ==
    {id \in IntentIds :
        /\ \A c \in Intents[id].input_contexts : c \in DOMAIN ds_contexts
        /\ Accepts(Intents[id], IUInput)}

\* those of them whose NL trigger is a FallbackNLTrigger
MatchableFallbacks ==
    {id \in MatchableByRule : Intents[id].nl_trigger.type = "FallbackNLTrigger"}

\* C17: DefaultIU.run sets fallback_intent_id to a matchable intent whose NL
\* trigger is a FallbackNLTrigger when the input is natural language and
\* such an intent exists, and to None when the input is natural language
\* and none exists or when the input is not natural language.
FallbackIsMatchable ==
    iu_pc = "done" =>
        IF IUInput.type = "NLInput" /\ MatchableFallbacks # {}
        THEN Get(iu_result).fallback_intent_id \in MatchableFallbacks
        ELSE Get(iu_result).fallback_intent_id = None

\* a natural-language input in a state that holds the input context of the
\* fallback intent
FallbackIsMatchableWitness ==
    /\ iu_pc = "done"
    /\ IUInput.type = "NLInput"
    /\ "ask_continue" \in DOMAIN ds_contexts
    /\ Get(iu_result).fallback_intent_id = "fallback"

\* a natural-language input in a state without the input context of the
\* fallback intent
NoFallbackReached ==
    /\ iu_pc = "done"
    /\ IUInput.type = "NLInput"
    /\ "ask_continue" \notin DOMAIN ds_contexts
    /\ Get(iu_result).fallback_intent_id = None

\* an input that is not natural language in a state where the fallback
\* intent has its input context
SelectionNoFallbackReached ==
    /\ iu_pc = "done"
    /\ IUInput.type = "SelectionInput"
    /\ "ask_continue" \in DOMAIN ds_contexts
    /\ Get(iu_result).fallback_intent_id = None

(***************************************************************************)
(* SpecPhrase: a Phrase is constructed from a list of PhraseEntity and     *)
(* annotate is called on it                                                *)
(***************************************************************************)
MaxPos == 3
MaxGiven == 2
MaxAnnotates == 1

\* the annotations of a text of MaxPos characters; PhraseEntity.__init__
\* raises ValueError unless start < end
PhraseEntities ==
    {PhraseEntity(span[1], span[2], "country", "COUNTRY_DE") :
        span \in {sp \in (0..MaxPos) \X (0..MaxPos) : sp[1] < sp[2]}}

\* the lists of at most MaxGiven annotations
PhraseEntityLists == UNION {[1..n -> PhraseEntities] : n \in 0..MaxGiven}

InitPhrase ==
    /\ RankingIdle /\ AmbiguityIdle /\ StateIdle /\ IUIdle /\ RegexIdle /\ MapperIdle /\ PipelineIdle /\ PatternIdle /\ AggregateIdle /\ TurnIdle
    /\ ph_entities \in PhraseEntityLists
    /\ ph_phrase = <<>>
    /\ ph_annotated = <<>>
    /\ ph_n = 0
    /\ ph_pc = "new"

\* Phrase(expression_id, text, entities)
PhraseNew ==
    /\ ph_pc = "new"
    /\ ph_phrase' = Some(Phrase("hello-expression", "test", ph_entities))
    /\ ph_pc' = "live"
    /\ UNCHANGED <<ph_entities, ph_annotated, ph_n,
                   rankingVars, ambiguityVars, stateVars, iuVars, regexVars, mapperVars, pipelineVars, patternVars, aggregateVars, turnVars>>

\* phrase.annotate(entity)
PhraseAnnotate ==
    /\ ph_pc = "live"
    /\ ph_n < MaxAnnotates
    /\ \E entity \in PhraseEntities :
          /\ ph_phrase' = Some([Get(ph_phrase) EXCEPT
                                  !.entities = annotate(Get(ph_phrase).entities, entity)])
          /\ ph_annotated' = Some([entity |-> entity, before |-> Get(ph_phrase).entities])
    /\ ph_n' = ph_n + 1
    /\ UNCHANGED <<ph_entities, ph_pc,
                   rankingVars, ambiguityVars, stateVars, iuVars, regexVars, mapperVars, pipelineVars, patternVars, aggregateVars, turnVars>>

NextPhrase ==
    \/ PhraseNew
    \/ PhraseAnnotate

SpecPhrase == InitPhrase /\ [][NextPhrase]_vars

\* the annotations of a list are pairwise non-overlapping and sorted by
\* position: each ends where or before the next one starts
SortedDisjoint(phrase_entities) ==
    \A i, j \in DOMAIN phrase_entities :
        i < j => phrase_entities[i].end <= phrase_entities[j].start

\* two annotations share a character
SpansOverlap(e1, e2) == e1.start < e2.end /\ e2.start < e1.end

\* C19: the entity annotations of a Phrase are pairwise non-overlapping and
\* sorted by position after its construction from any list of annotations
\* and after every annotate call; an annotate call whose annotation
\* overlaps one already in the phrase leaves the list unchanged.
AnnotationsSortedDisjoint ==
    ph_pc = "live" =>
        /\ SortedDisjoint(Get(ph_phrase).entities)
        /\ ph_annotated # <<>> =>
              ((\E k \in DOMAIN Get(ph_annotated).before :
                    SpansOverlap(Get(ph_annotated).before[k], Get(ph_annotated).entity))
               => Get(ph_phrase).entities = Get(ph_annotated).before)

\* what the code keeps: a phrase constructed from a list that is sorted and
\* non-overlapping stays so under annotate, an overlapping annotate changes
\* nothing, and the construction keeps the list it is given as it is
AnnotateKeepsSortedDisjoint ==
    ph_pc = "live" =>
        /\ SortedDisjoint(ph_entities) => SortedDisjoint(Get(ph_phrase).entities)
        /\ ph_annotated = <<>> => Get(ph_phrase).entities = ph_entities
        /\ ph_annotated # <<>> =>
              ((\E k \in DOMAIN Get(ph_annotated).before :
                    SpansOverlap(Get(ph_annotated).before[k], Get(ph_annotated).entity))
               => Get(ph_phrase).entities = Get(ph_annotated).before)

\* a phrase right after its construction from two annotations that overlap
OverlappingAfterConstruction ==
    /\ ph_pc = "live"
    /\ ph_n = 0
    /\ Len(Get(ph_phrase).entities) = 2
    /\ SpansOverlap(Get(ph_phrase).entities[1], Get(ph_phrase).entities[2])

\* a phrase right after its construction from two annotations in the wrong
\* order
UnsortedAfterConstruction ==
    /\ ph_pc = "live"
    /\ ph_n = 0
    /\ Len(Get(ph_phrase).entities) = 2
    /\ Get(ph_phrase).entities[2].end <= Get(ph_phrase).entities[1].start

\* an annotate call that inserts between two annotations, and one that is
\* skipped for an overlap
AnnotateInsertsReached ==
    /\ ph_pc = "live"
    /\ ph_annotated # <<>>
    /\ Len(Get(ph_annotated).before) = 2
    /\ Len(Get(ph_phrase).entities) = 3
    /\ Get(ph_phrase).entities[2] = Get(ph_annotated).entity
AnnotateSkipsReached ==
    /\ ph_pc = "live"
    /\ ph_annotated # <<>>
    /\ SortedDisjoint(ph_entities)
    /\ \E k \in DOMAIN Get(ph_annotated).before :
          SpansOverlap(Get(ph_annotated).before[k], Get(ph_annotated).entity)
    /\ Get(ph_phrase).entities = Get(ph_annotated).before

(***************************************************************************)
(* bot_env.py, bot_session.py, static/actions.py, static/intents.py: a     *)
(* turn of the bot.  BotEnv.respond runs the IU on the input, and then     *)
(* executes the action of an intent, or asks the user which intent was     *)
(* meant, or answers that nothing was understood.  What an action sends    *)
(* to the dispatcher is recorded as a list of events.                      *)
(***************************************************************************)
Event(kind, ref, choices) == [kind |-> kind, ref |-> ref, choices |-> choices]

\* Choice(key, idx, ...)
Choice(key, idx) == [key |-> key, idx |-> idx]

\* intent.action.execute(session) of an intent with its own response
IntentActionEvent(intent_id) == Event("action", intent_id, <<>>)
\* NLAction(LANG_TEXTS[text]).execute(session)
UtterEvent(text) == Event("utter", text, <<>>)
\* ChoiceAction(choices).execute(session)
ChoiceEvent(choices) == Event("choice", None, choices)

\* DialogueState.set_slot and DialogueState.clear_slot
set_slot(slots, slot, v) ==
    [n \in (DOMAIN slots) \cup {slot} |-> IF n = slot THEN v ELSE slots[n]]

clear_slot(slots, slot) ==
    [n \in (DOMAIN slots) \ {slot} |-> slots[n]]

\* the argument default_values of Entity.__init__ for the entities of the
\* bot: Nothing for None, or Some(the value ids)
DefaultValuesArgument ==
    [e \in {"country", "pronoun", "origin"} |->
        IF e = "origin" THEN Some({"COUNTRY_IT"}) ELSE Nothing]

\* Entity.default_values: Entity.__init__ turns None into [] and the list
\* into a set
default_values(entity_id) ==
    IF DefaultValuesArgument[entity_id] = Nothing THEN {}
    ELSE Get(DefaultValuesArgument[entity_id])

\* BotSession.update_entity_slots(entities)
update_entity_slots(slots, extracted) ==
    With({e.id : e \in entities(Nothing, Nothing)}, LAMBDA entity_ids :
    With({x.entity : x \in extracted}, LAMBDA nl_slots :
        [n \in (DOMAIN slots) \cup entity_ids \cup nl_slots |->
            IF n \in nl_slots THEN {x \in extracted : x.entity = n}
            ELSE IF n \in entity_ids THEN default_values(n)
            ELSE slots[n]]))

\* the names of the slots verify_intent sets
VerifySlots ==
    <<"verify_intent#intents", "verify_intent#input", "verify_intent#iu_result",
      "verify_intent#dialogue_state", "verify_intent#slots">>

\* the slot verify_intent#dialogue_state holds the dialogue state object of
\* the session itself, not a copy of it
TheDialogueState == [ref |-> "session.dialogue_state"]

\* utils/score_clustering.py top_similar_scores(lst, min_score, key): lst when
\* it has at most one element; else the elements that the clustering of the
\* scores (and of min_score) into two clusters puts with the best one.  The
\* clustering is the library's: any choice of elements that keeps the first.
top_similar_scores(lst) ==
    IF Len(lst) <= 1 THEN {lst}
    ELSE {SelectSeq(lst, LAMBDA s : s.ref_id \in picked \cup {lst[1].ref_id}) :
             picked \in SUBSET {lst[k].ref_id : k \in 2..Len(lst)}}

\* verify_intents of _respond_valid_input, without the cut to max_verify_nr
verify_intents_uncut(top_confident_intents, max_verify_nr) ==
    SelectSeq(top_confident_intents, LAMBDA s : intent(s.ref_id).verify)

\* verify_intents of _respond_valid_input
verify_intents_of(top_confident_intents, max_verify_nr) ==
    With(SelectSeq(top_confident_intents, LAMBDA s : intent(s.ref_id).verify),
         LAMBDA verifiable : SubSeq(verifiable, 1, Min2(max_verify_nr, Len(verifiable))))

\* static/actions.py verify_intent(env, intent_scores, iu_result,
\* dialogue_state, user_input).execute(session): the new contexts, the new
\* slots and the events
verify_intent(contexts, slots, scores, iu_res, user_input) ==
    [contexts |-> set_context(contexts, TTLContext("verify_intent", Some(3))),
     slots |->
        set_slot(set_slot(set_slot(set_slot(set_slot(slots,
            "verify_intent#intents", [k \in DOMAIN scores |-> scores[k].ref_id]),
            "verify_intent#input", user_input),
            "verify_intent#iu_result", iu_res),
            "verify_intent#dialogue_state", TheDialogueState),
            "verify_intent#slots", VerifySlots),
     events |->
        <<UtterEvent("verify_intent_not_understand"),
          ChoiceEvent([k \in DOMAIN scores |-> Choice("intent", k - 1)]
                      \o <<Choice("none", -1)>>)>>,
     error |-> FALSE]

\* DefaultIU._extract_entities(intent_id, nlu_res, user_input, dialogue_state):
\* the entities of the NLU result; no intent overrides custom_extract
extract_entities(intent_id, nlu_res) ==
    IF nlu_res # Nothing THEN Get(nlu_res).entities ELSE {}

\* DefaultIU.update_entities(intent_id, iu_result, dialogue_state)
update_entities(intent_id, iu_res) == extract_entities(intent_id, iu_res.nlu_result)

\* the slots named in the slot verify_intent#slots are cleared one by one
RECURSIVE clear_slots(_, _)
clear_slots(slots, names) ==
    IF names = <<>> THEN slots
    ELSE clear_slots(clear_slot(slots, Head(names)), Tail(names))

\* lst[idx] of Python: a negative idx counts from the end; Nothing is IndexError
py_index(lst, idx) ==
    IF 0 <= idx /\ idx < Len(lst) THEN Some(lst[idx + 1])
    ELSE IF idx < 0 /\ -idx <= Len(lst) THEN Some(lst[Len(lst) + idx + 1])
    ELSE Nothing

\* true_intent_id of VerifyIntentIntent._do_execute taken as the first of the
\* stored intents, whatever was selected
first_intent_id(stored_intents, selection_idx) == py_index(stored_intents, 0)

\* true_intent_id of VerifyIntentIntent._do_execute
true_intent_id(stored_intents, selection_idx) == py_index(stored_intents, selection_idx)

\* the result of an action that raises: nothing has changed
Raised(contexts, slots) ==
    [contexts |-> contexts, slots |-> slots, events |-> <<>>, error |-> TRUE]

\* static/intents.py VerifyIntentIntent._do_execute(session); iu_res is
\* session.iu_result.  The record of the learned input goes to the database
\* and is recorded as an event.  When the intent selected is
\* VerifyIntentIntent itself, its action is this function again, with the
\* same input: the recursion ends with a RecursionError.
VerifyIntentIntent_do_execute(contexts, slots, iu_res) ==
    IF \E n \in Range(VerifySlots) : n \notin DOMAIN slots
    THEN Raised(contexts, slots)
    ELSE IF iu_res.user_input.selection_key = "intent"
    THEN With(true_intent_id(slots["verify_intent#intents"],
                             iu_res.user_input.selection_idx), LAMBDA true_id :
            IF true_id = Nothing THEN Raised(contexts, slots)
            ELSE IF Get(true_id) = "VerifyIntentIntent"
            THEN Raised(contexts,
                        update_entity_slots(slots,
                            update_entities(Get(true_id), slots["verify_intent#iu_result"])))
            ELSE [contexts |-> contexts,
                  slots |-> clear_slots(
                      update_entity_slots(slots,
                          update_entities(Get(true_id), slots["verify_intent#iu_result"])),
                      slots["verify_intent#slots"]),
                  events |-> <<UtterEvent("verify_intent_thanks"),
                               Event("learned", Get(true_id), <<>>),
                               IntentActionEvent(Get(true_id))>>,
                  error |-> FALSE])
    ELSE IF iu_res.user_input.selection_key = "none"
    THEN [contexts |-> contexts,
          slots |-> clear_slots(slots, slots["verify_intent#slots"]),
          events |-> <<Event("learned", None, <<>>),
                       UtterEvent("verify_intent_none.1"),
                       UtterEvent("verify_intent_none.2")>>,
          error |-> FALSE]
    ELSE Raised(contexts, slots)

\* intent.action.execute(session): VerifyIntentIntent runs its _do_execute,
\* the response of every other intent is the bot's own and is an event
execute_intent(intent_id, contexts, slots, iu_res) ==
    IF intent_id = "VerifyIntentIntent"
    THEN With(VerifyIntentIntent_do_execute(contexts, slots, iu_res), LAMBDA r :
              [r EXCEPT !.events = <<IntentActionEvent(intent_id)>> \o @])
    ELSE [contexts |-> contexts, slots |-> slots,
          events |-> <<IntentActionEvent(intent_id)>>, error |-> FALSE]

\* BotEnv._respond_no_intent_found
respond_no_intent_found(contexts, slots, iu_res) ==
    IF iu_res.fallback_intent_id # None
    THEN execute_intent(iu_res.fallback_intent_id, contexts, slots, iu_res)
    ELSE IF iu_res.user_input.type = "NLInput"
    THEN [contexts |-> contexts, slots |-> slots,
          events |-> <<UtterEvent("intent_not_understand")>>, error |-> FALSE]
    ELSE [contexts |-> contexts, slots |-> slots, events |-> <<>>, error |-> FALSE]

\* consume_dialogue_state when _respond_no_intent_found returns True on
\* every path
consume_dialogue_state_always(iu_res) == TRUE

\* consume_dialogue_state, as _respond_no_intent_found returns it
consume_dialogue_state(iu_res) ==
    iu_res.fallback_intent_id # None \/ iu_res.user_input.type = "NLInput"

\* confident_intents of _respond_valid_input
confident_intents(iu_res) ==
    SelectSeq(iu_res.intent_ranking, LAMBDA s : s.score >= iu_res.confidence_threshold)

\* the part of _respond_valid_input after the IU, for the top cluster the
\* clustering has returned
respond_confident(contexts, slots, iu_res, top_confident_intents, max_verify_nr) ==
    With(verify_intents_of(top_confident_intents, max_verify_nr), LAMBDA verify_intents :
        IF Len(verify_intents) <= 1
        THEN execute_intent(iu_res.intent_ranking[1].ref_id, contexts,
                            update_entity_slots(slots, iu_res.entities), iu_res)
        ELSE verify_intent(contexts, slots, verify_intents, iu_res, iu_res.user_input))

\* the entities an NLU returns in a turn
TurnEntities ==
    {{}, {ExtractedEntity(0, 1, "country", "COUNTRY_DE", "y", One, "rasa")}}

\* the results of nlu.run(utterance, intent_filter) in a turn: the NLU of the
\* bot has the confidence threshold 0.5
TurnNLUResults(utterance, intent_filter) ==
    {[r EXCEPT !.entities = es] :
        r \in {n \in NLUResults(utterance, intent_filter) : n.confidence_threshold = Half},
        es \in TurnEntities}

\* list(S) of the set S of matchable intents in a turn: an order and its
\* reverse, so that every two intents come in both orders
TurnListsOf(S) ==
    With(CHOOSE q \in ListsOf(S) : TRUE, LAMBDA q :
         {q, [k \in DOMAIN q |-> q[Len(q) + 1 - k]]})

\* DefaultIU.run(user_input, dialogue_state): the results it can return, for
\* the results of the NLU and the orders of the set of matchable intents
DefaultIU_run(user_input, contexts) ==
    With(determine_matchable_intents(user_input, contexts), LAMBDA matchable :
    UNION {UNION {
        With(IF user_input.type = "NLInput"
             THEN Some(run_nlu(user_input, contexts, matchable_intents, nlu_result))
             ELSE Nothing, LAMBDA nlu_res :
        With(score_matchable_intents(user_input, contexts, nlu_res, matchable_intents),
             LAMBDA scored :
            {IUResult(user_input, scored[1], scored[2],
                      extract_entities(None, nlu_res),
                      IF nlu_res # Nothing THEN Some(Get(nlu_res).nlu_result) ELSE Nothing,
                      fallback_intent_id) :
                fallback_intent_id \in
                    IF user_input.type = "NLInput"
                       /\ nl_fallback_intents(matchable_intents) # {}
                    THEN nl_fallback_intents(matchable_intents) ELSE {None}}))
        : matchable_intents \in TurnListsOf(matchable)}
        : nlu_result \in IF user_input.type = "NLInput"
                         THEN TurnNLUResults(user_input.text, matchable)
                         ELSE {Nothing}})

(***************************************************************************)
(* Specification SpecTurn: a session of up to MaxSessionTurns turns of     *)
(* BotEnv.respond, for a bot that shows at most max_verify_nr candidates.  *)
(***************************************************************************)
MaxVerifyNr == 2
MaxSessionTurns == 3

\* NLInput.MIN_LENGTH and NLInput.MAX_LENGTH
MIN_LENGTH == 0
MAX_LENGTH == 400

\* a text of 401 characters
LongText == "aaaaaaaaaaaaaaaaaaaaaaaaaaaaaaaaaaaaaaaaaaaaaaaaaaaaaaaaaaaaaaaaaaaaaaaaaaaaaaaaaaaaaaaaaaaaaaaaaaaaaaaaaaaaaaaaaaaaaaaaaaaaaaaaaaaaaaaaaaaaaaaaaaaaaaaaaaaaaaaaaaaaaaaaaaaaaaaaaaaaaaaaaaaaaaaaaaaaaaaaaaaaaaaaaaaaaaaaaaaaaaaaaaaaaaaaaaaaaaaaaaaaaaaaaaaaaaaaaaaaaaaaaaaaaaaaaaaaaaaaaaaaaaaaaaaaaaaaaaaaaaaaaaaaaaaaaaaaaaaaaaaaaaaaaaaaaaaaaaaaaaaaaaaaaaaaaaaaaaaaaaaaaaaaaaaaaaaaaaaaaaaaaaaaaaaaaaaaaaaaa"

\* the inputs of a turn: an utterance, answers to the choice prompt, and a
\* selection of another prompt
TurnInputs ==
    {NLInput("yes"), NLInput(""), NLInput(LongText),
     SelectionInput("none", -1), SelectionInput("continue", 0)}
        \cup {SelectionInput("intent", i) : i \in 0..MaxVerifyNr - 1}

InitTurn ==
    /\ RankingIdle /\ AmbiguityIdle /\ StateIdle /\ IUIdle /\ RegexIdle /\ MapperIdle /\ PipelineIdle /\ PatternIdle /\ AggregateIdle /\ PhraseIdle
    /\ tn_max_verify_nr \in 1..MaxVerifyNr
    /\ tn_contexts \in {[n \in S |-> TTLContext(n, Nothing)] :
                            S \in SUBSET {"ask_ok", "ask_continue"}}
    /\ tn_slots = <<>>
    /\ tn_iu_result = <<>>
    /\ tn_top = <<>>
    /\ tn_dispatched = <<>>
    /\ tn_turns = 0
    /\ tn_pc = "ready"
    /\ tn_log_conversation = TRUE
    /\ tn_dispatcher = 0
    /\ tn_live_calls = 0
    /\ tn_user_input = <<>>

\* UserInput.ignore and UserInput.is_valid; only NLInput overrides them
ignore(user_input) ==
    IF user_input.type = "NLInput" THEN Len(user_input.text) <= 0 ELSE FALSE

is_valid(user_input) ==
    IF user_input.type = "NLInput"
    THEN MIN_LENGTH <= Len(user_input.text) /\ Len(user_input.text) <= MAX_LENGTH
    ELSE TRUE

\* BotEnv.log(bot_session, ...) raises when bot_session.iu_result is None:
\* None has no to_repr_dict
log_raises(session_iu_result) == session_iu_result = Nothing

\* the end of BotEnv.respond.  The outcome of the handling is stored.  When
\* the handling has raised, the call ends there, with the MultiDispatcher of
\* the turn still set; else the dispatcher of the session is set back and
\* the conversation is logged if log_conversation is set.
RespondEnds(user_input, session_iu_result, top_confident_intents, outcome, lives) ==
    /\ tn_user_input' = Some(user_input)
    /\ tn_iu_result' = session_iu_result
    /\ tn_top' = top_confident_intents
    /\ tn_slots' = outcome.slots
    /\ tn_dispatched' = outcome.events
    /\ tn_contexts' = IF lives THEN DialogueState_live(outcome.contexts)
                      ELSE outcome.contexts
    /\ tn_live_calls' = IF lives THEN 1 ELSE 0
    /\ tn_dispatcher' = IF outcome.error THEN tn_dispatcher + 1 ELSE tn_dispatcher
    /\ tn_pc' = IF outcome.error \/ (tn_log_conversation /\ log_raises(session_iu_result))
                THEN "error" ELSE "ready"
    /\ tn_turns' = tn_turns + 1
    /\ UNCHANGED <<tn_max_verify_nr, tn_log_conversation>>
    /\ UNCHANGED <<rankingVars, ambiguityVars, stateVars, iuVars, regexVars, mapperVars, pipelineVars, patternVars, aggregateVars, phraseVars>>

\* the end of _respond_valid_input: the dialogue state lives when it is
\* consumed and nothing was raised
TurnEnds(iu_res, top_confident_intents, outcome, consume) ==
    RespondEnds(iu_res.user_input, Some(iu_res), top_confident_intents, outcome, consume /\ ~outcome.error)

\* BotEnv.respond(bot_session, user_input) for an input that is ignored
RespondIgnored ==
    /\ tn_pc = "ready" /\ tn_turns < MaxSessionTurns
    /\ \E user_input \in TurnInputs :
          /\ ignore(user_input)
          /\ RespondEnds(user_input, tn_iu_result, <<>>,
                         [contexts |-> tn_contexts, slots |-> tn_slots,
                          events |-> <<>>, error |-> FALSE], FALSE)

\* BotEnv.respond(bot_session, user_input) for an invalid input:
\* _respond_invalid_input
RespondInvalid ==
    /\ tn_pc = "ready" /\ tn_turns < MaxSessionTurns
    /\ \E user_input \in TurnInputs :
          /\ ~ignore(user_input) /\ ~is_valid(user_input)
          /\ RespondEnds(user_input, tn_iu_result, <<>>,
                         [contexts |-> tn_contexts, slots |-> tn_slots,
                          events |-> <<UtterEvent("invalid_input.1"),
                                       UtterEvent("invalid_input.2")>>,
                          error |-> FALSE], FALSE)

\* BotEnv.respond(bot_session, user_input) for a valid input: the IU runs,
\* then _respond_no_intent_found when no intent is confident, else the top
\* intent is executed or the user is asked; the dialogue state lives at last
Respond ==
    /\ tn_pc = "ready" /\ tn_turns < MaxSessionTurns
    /\ \E user_input \in {i \in TurnInputs : ~ignore(i) /\ is_valid(i)} :
       \E iu_res \in DefaultIU_run(user_input, tn_contexts) :
          IF confident_intents(iu_res) = <<>>
          THEN TurnEnds(iu_res, <<>>,
                        respond_no_intent_found(tn_contexts, tn_slots, iu_res),
                        consume_dialogue_state(iu_res))
          ELSE \E top_confident_intents \in top_similar_scores(confident_intents(iu_res)) :
                  TurnEnds(iu_res, top_confident_intents,
                           respond_confident(tn_contexts, tn_slots, iu_res,
                                             top_confident_intents, tn_max_verify_nr),
                           TRUE)

NextTurn == Respond \/ RespondIgnored \/ RespondInvalid

SpecTurn == InitTurn /\ [][NextTurn]_vars

\* the turn a state records: its IU result, what it executed and sent
\* the input of the turn a state records
TurnInput == Get(tn_user_input)
\* the last turn has handled a valid input
ValidTurn == tn_turns > 0 /\ ~ignore(TurnInput) /\ is_valid(TurnInput)
TurnResult == Get(tn_iu_result)
TurnConfident ==
    ValidTurn /\ tn_pc = "ready" /\ confident_intents(TurnResult) # <<>>
VerifiableTop == SelectSeq(tn_top, LAMBDA s : intent(s.ref_id).verify)
ExecutedIntents ==
    {tn_dispatched[k].ref : k \in {j \in DOMAIN tn_dispatched :
                                        tn_dispatched[j].kind = "action"}}
ChoicePrompts ==
    {tn_dispatched[k].choices : k \in {j \in DOMAIN tn_dispatched :
                                            tn_dispatched[j].kind = "choice"}}

\* the entity slots hold the defaults of the bot's entities and the
\* extracted entities, and the top-ranked intent was executed first, with no
\* choice prompt
ExecutedDirectly ==
    /\ \A e \in RegisteredEntities : e.id \in DOMAIN tn_slots
    /\ \A x \in TurnResult.entities : x \in tn_slots[x.entity]
    /\ tn_dispatched # <<>>
    /\ tn_dispatched[1] = IntentActionEvent(TurnResult.intent_ranking[1].ref_id)
    /\ ChoicePrompts = {}

\* no intent was executed and the choice prompt offers the first n verifiable
\* intents of the top cluster and the option 'none'; the context is set and
\* the slots hold the input, the IU result and the dialogue state
PromptedWith(n) ==
    /\ ExecutedIntents = {}
    /\ ChoicePrompts =
          {[k \in 1..n |-> Choice("intent", k - 1)] \o <<Choice("none", -1)>>}
    /\ "verify_intent" \in DOMAIN tn_contexts
    /\ \A k \in 1..Len(VerifySlots) : VerifySlots[k] \in DOMAIN tn_slots
    /\ tn_slots["verify_intent#intents"] = [k \in 1..n |-> VerifiableTop[k].ref_id]
    /\ tn_slots["verify_intent#input"] = TurnResult.user_input
    /\ tn_slots["verify_intent#iu_result"] = TurnResult
    /\ tn_slots["verify_intent#dialogue_state"] = TheDialogueState

\* C18 as stated: after a turn of BotEnv.respond in which some intent was
\* confident, if at most one intent of the top cluster is verifiable then the
\* entity slots are set and the top-ranked intent was executed without a
\* prompt; otherwise nothing was executed and the prompt offers verifiable
\* intents of the top cluster, at least 2 and at most max_verify_nr, and
\* 'none', the verify_intent context is set and the slots hold the input, the
\* IU result and the dialogue state
PromptIffSeveralVerifiable ==
    TurnConfident =>
        IF Len(VerifiableTop) <= 1 THEN ExecutedDirectly
        ELSE \E n \in 2..tn_max_verify_nr :
                n <= Len(VerifiableTop) /\ PromptedWith(n)

\* C18, amended: the test is made on the first max_verify_nr verifiable
\* intents of the top cluster.  If these are at most one, the entity slots
\* are set and the top-ranked intent is executed without a prompt; otherwise
\* nothing is executed and the prompt offers exactly these intents, at least
\* 2 and at most max_verify_nr, and 'none', the verify_intent context is set
\* and the slots hold the input, the IU result and the dialogue state
PromptIffSeveralAfterCut ==
    TurnConfident =>
        With(Min2(tn_max_verify_nr, Len(VerifiableTop)), LAMBDA n :
            IF n <= 1 THEN ExecutedDirectly
            ELSE n >= 2 /\ n <= tn_max_verify_nr /\ PromptedWith(n))

\* a turn whose top cluster has more verifiable intents than max_verify_nr,
\* which is at least 2: the prompt offers max_verify_nr of them
PromptIffSeveralAfterCutWitness ==
    /\ TurnConfident
    /\ tn_max_verify_nr >= 2
    /\ Len(VerifiableTop) > tn_max_verify_nr
    /\ PromptedWith(tn_max_verify_nr)
    /\ TurnResult.entities # {}

\* a turn of a bot with max_verify_nr = 1 whose top cluster has two
\* verifiable intents: the top-ranked intent is executed without a prompt
SeveralVerifiableExecutedReached ==
    /\ TurnConfident
    /\ tn_max_verify_nr = 1
    /\ Len(VerifiableTop) >= 2
    /\ ExecutedDirectly

\* a turn whose top cluster has one verifiable intent that is not the
\* top-ranked intent
OneVerifiableExecutedReached ==
    /\ TurnConfident
    /\ Len(VerifiableTop) = 1
    /\ TurnResult.entities # {}
    /\ ExecutedDirectly
    /\ ExecutedIntents = {TurnResult.intent_ranking[1].ref_id}

\* the choice prompt of the turn a state records, if it issued one
PromptPending == ChoicePrompts # {}
OfferedChoices == UNION {Range(choices) : choices \in ChoicePrompts}
StoredIntents == tn_slots["verify_intent#intents"]
StoredEntities == update_entities(None, tn_slots["verify_intent#iu_result"])

\* a step that is the turn answering the prompt of the turn before with the
\* selection (key, idx), one of the choices offered
AnswersPrompt(key, idx) ==
    /\ PromptPending
    /\ Choice(key, idx) \in OfferedChoices
    /\ tn_turns' = tn_turns + 1
    /\ Get(tn_iu_result').user_input = SelectionInput(key, idx)

VerifySlotsCleared == \A k \in DOMAIN VerifySlots : VerifySlots[k] \notin DOMAIN tn_slots

\* the entity slots hold the defaults, and the extracted entities es
EntitySlotsHold(es) ==
    \A e \in RegisteredEntities :
        /\ e.id \in DOMAIN tn_slots
        /\ tn_slots[e.id] = IF \E x \in es : x.entity = e.id
                            THEN {x \in es : x.entity = e.id} ELSE default_values(e.id)

EntitySlotsHoldNext(es) ==
    \A e \in RegisteredEntities :
        /\ e.id \in DOMAIN tn_slots'
        /\ tn_slots'[e.id] = IF \E x \in es : x.entity = e.id
                             THEN {x \in es : x.entity = e.id} ELSE default_values(e.id)

\* what C20 says of the turn that answers the prompt with (key, idx)
AnswerSettled(key, idx) ==
    /\ \A k \in DOMAIN VerifySlots : VerifySlots[k] \notin DOMAIN tn_slots'
    /\ IF key = "intent"
       THEN /\ EntitySlotsHoldNext(StoredEntities)
            /\ ExecutedIntents' \cap Range(StoredIntents) = {StoredIntents[idx + 1]}
       ELSE ExecutedIntents' \cap Range(StoredIntents) = {}

\* C20: when the turn after a choice prompt answers it with the selection
\* ('intent', i), the entity slots are set from the entities re-extracted
\* from the stored IU result, the action of the i-th stored intent is
\* executed and the action of no other stored intent is; with the selection
\* 'none' the action of no stored intent is executed; in both cases no
\* verify_intent# slot is left when the turn ends
AnswerExecutesChosenOnly ==
    [][\A idx \in 0..MaxVerifyNr :
          /\ AnswersPrompt("intent", idx) => AnswerSettled("intent", idx)
          /\ AnswersPrompt("none", -1) => AnswerSettled("none", -1)]_vars

\* the same, for the prompts that do not offer VerifyIntentIntent itself
AnswerExecutesChosenOnlyOfOthers ==
    [][\A idx \in 0..MaxVerifyNr :
          /\ (AnswersPrompt("intent", idx) /\ "VerifyIntentIntent" \notin Range(StoredIntents))
                => AnswerSettled("intent", idx)
          /\ (AnswersPrompt("none", -1) /\ "VerifyIntentIntent" \notin Range(StoredIntents))
                => AnswerSettled("none", -1)]_vars

\* a prompt that offers VerifyIntentIntent was answered with VerifyIntentIntent:
\* the turn has raised and the verify_intent# slots are still set
SelfSelectionRaisesReached ==
    /\ tn_pc = "error" /\ ValidTurn
    /\ TurnResult.user_input.type = "SelectionInput"
    /\ TurnResult.user_input.selection_key = "intent"
    /\ "verify_intent#intents" \in DOMAIN tn_slots
    /\ py_index(StoredIntents, TurnResult.user_input.selection_idx) = Some("VerifyIntentIntent")

\* a prompt was answered with ('intent', 1): the second stored intent was
\* executed, the entity slots hold an extracted entity and no verify_intent#
\* slot is left
AnswerExecutesChosenOnlyWitness ==
    /\ tn_pc = "ready" /\ tn_turns = 2 /\ ValidTurn
    /\ TurnResult.user_input = SelectionInput("intent", 1)
    /\ VerifySlotsCleared
    /\ Cardinality(ExecutedIntents) = 2
    /\ "ok.yes" \notin ExecutedIntents
    /\ tn_slots["country"] # {}

\* a prompt was answered with 'none': no intent but VerifyIntentIntent was
\* executed and no verify_intent# slot is left
AnswerNoneReached ==
    /\ tn_pc = "ready" /\ tn_turns = 2 /\ ValidTurn
    /\ TurnResult.user_input = SelectionInput("none", -1)
    /\ VerifySlotsCleared
    /\ ExecutedIntents = {"VerifyIntentIntent"}
    /\ Len(tn_dispatched) > 1

\* the entities that the turn of a step passes to update_entity_slots: those
\* of its IU result and, when it answers a prompt with an intent, those
\* re-extracted from the stored IU result
PassedEntities ==
    Get(tn_iu_result').entities
        \cup IF /\ "VerifyIntentIntent" \in ExecutedIntents'
                /\ "verify_intent#iu_result" \in DOMAIN tn_slots
             THEN StoredEntities ELSE {}

\* C21: in every turn, the slot of an entity type that was registered
\* without default values and of which the turn passes no extracted entity
\* to update_entity_slots keeps the entities it holds
SlotKeptWithoutDefaults ==
    [][\A e \in RegisteredEntities :
          (/\ tn_turns' = tn_turns + 1
           /\ DefaultValuesArgument[e.id] = Nothing
           /\ e.id \in DOMAIN tn_slots
           /\ \A x \in PassedEntities : x.entity # e.id)
              => (e.id \in DOMAIN tn_slots' /\ tn_slots'[e.id] = tn_slots[e.id])]_vars

\* the same for the slots that hold no extracted entity: update_entity_slots
\* sets them to the empty set again
EmptySlotKeptWithoutDefaults ==
    [][\A e \in RegisteredEntities :
          (/\ tn_turns' = tn_turns + 1
           /\ DefaultValuesArgument[e.id] = Nothing
           /\ e.id \in DOMAIN tn_slots /\ tn_slots[e.id] = {}
           /\ \A x \in PassedEntities : x.entity # e.id)
              => (e.id \in DOMAIN tn_slots' /\ tn_slots'[e.id] = tn_slots[e.id])]_vars

\* a second turn that executed an intent and extracted nothing: the slot
\* country, registered without default values, is empty
SlotEmptiedReached ==
    /\ tn_turns = 2 /\ tn_pc = "ready" /\ ValidTurn
    /\ TurnResult.entities = {}
    /\ "hello" \in ExecutedIntents
    /\ "country" \in DOMAIN tn_slots /\ tn_slots["country"] = {}
    /\ tn_slots["origin"] = {"COUNTRY_IT"}

\* the live() step on contexts
Aged(contexts) == DialogueState_live(contexts)

\* what the live() step of a turn does to the contexts: each context of the
\* turn, the verify_intent context a prompt has set included, is aged once
\* and is dropped when it is dead
LivedOnce ==
    /\ tn_live_calls' = 1
    /\ \A n \in DOMAIN tn_contexts' :
          tn_contexts'[n] =
              TTLContext_live(IF n = "verify_intent" /\ ChoicePrompts' # {}
                              THEN TTLContext("verify_intent", Some(3))
                              ELSE tn_contexts[n])
    /\ \A n \in DOMAIN tn_contexts :
          n \notin DOMAIN tn_contexts' => is_dead(TTLContext_live(tn_contexts[n]))

NotLived == tn_live_calls' = 0 /\ tn_contexts' = tn_contexts

InvalidInputReached ==
    /\ tn_turns >= 2 /\ tn_pc = "ready"
    /\ ~is_valid(TurnInput)
    /\ tn_live_calls = 0
    /\ "verify_intent" \in DOMAIN tn_contexts

\* a turn with an ignored input
IgnoredInputReached ==
    /\ tn_turns >= 2 /\ tn_pc = "ready"
    /\ ignore(TurnInput)
    /\ tn_live_calls = 0

\* a turn with a valid input whose action has raised: no live() step
RaisedWithoutLiveReached ==
    /\ tn_pc = "error"
    /\ ~ignore(TurnInput) /\ is_valid(TurnInput)
    /\ confident_intents(TurnResult) # <<>>
    /\ tn_live_calls = 0

\* C26: after every call of BotEnv.respond, whether it returns or raises
\* while the input is handled or logged, bot_session.dispatcher is the
\* dispatcher the session had before the call
DispatcherRestored ==
    [][tn_turns' = tn_turns + 1 => tn_dispatcher' = tn_dispatcher]_vars

\* the same for the calls that return and for those that raise while the
\* conversation is logged
DispatcherRestoredUnlessHandlingRaises ==
    [][(/\ tn_turns' = tn_turns + 1
        /\ \/ tn_pc' = "ready"
           \/ ignore(TurnInput') \/ ~is_valid(TurnInput'))
          => tn_dispatcher' = tn_dispatcher]_vars

\* the handling of a valid input has raised: the session is left with the
\* MultiDispatcher of that turn
DispatcherLeftReached ==
    /\ tn_pc = "error"
    /\ ~ignore(TurnInput) /\ is_valid(TurnInput)
    /\ tn_dispatcher = 1

\* the logging of an ignored first input has raised: the session has its own
\* dispatcher
LogRaisedReached ==
    /\ tn_pc = "error" /\ tn_turns = 1
    /\ ignore(TurnInput)
    /\ tn_dispatcher = 0

\* C24: the action of VerifyIntentIntent runs only in a turn that starts with
\* slot verify_intent#intents set: after it has answered a choice prompt and
\* cleared the verify_intent# slots, no selection input executes it until a
\* new prompt has set them
VerifyIntentRunsOnlyWithSlots ==
    [][(tn_turns' = tn_turns + 1 /\ "VerifyIntentIntent" \in ExecutedIntents')
          => "verify_intent#intents" \in DOMAIN tn_slots]_vars

\* what the code keeps: VerifyIntentIntent runs only on a selection input in
\* a turn that starts with the context verify_intent, which outlives the
\* slots
VerifyIntentRunsOnlyWithContext ==
    [][(tn_turns' = tn_turns + 1 /\ "VerifyIntentIntent" \in ExecutedIntents')
          => /\ "verify_intent" \in DOMAIN tn_contexts
             /\ TurnInput'.type = "SelectionInput"]_vars

\* the prompt of the first turn was answered in the second, which cleared
\* the slots; the selection input of the third turn has run
\* VerifyIntentIntent again, which raised
VerifyIntentRunsWithoutSlotsReached ==
    /\ tn_turns = 3 /\ tn_pc = "error"
    /\ TurnInput.type = "SelectionInput"
    /\ "VerifyIntentIntent" \in ExecutedIntents
    /\ VerifySlotsCleared
    /\ "verify_intent" \in DOMAIN tn_contexts

\* the dialogue state a slot value is: the session's own object stands for
\* the contexts and slots the session has now
dialogue_state_of(slot_value, contexts, slots) ==
    IF slot_value = TheDialogueState THEN [contexts |-> contexts, slots |-> slots] ELSE slot_value

\* session.dialogue_state.slot('verify_intent#dialogue_state')
last_dialogue_state ==
    dialogue_state_of(tn_slots["verify_intent#dialogue_state"], tn_contexts, tn_slots)

\* C25: the dialogue state stored in slot verify_intent#dialogue_state by a
\* choice prompt is a snapshot of the dialogue state of the ambiguous turn:
\* when the turn has ended it still holds the contexts and the slots the
\* turn started with
DialogueStateSlotIsSnapshot ==
    [][(tn_turns' = tn_turns + 1 /\ ChoicePrompts' # {})
          => last_dialogue_state' = [contexts |-> tn_contexts, slots |-> tn_slots]]_vars

\* what the code keeps: the slot holds the dialogue state of the session as
\* it is now
DialogueStateSlotIsTheSession ==
    "verify_intent#dialogue_state" \in DOMAIN tn_slots
        => /\ last_dialogue_state.contexts = tn_contexts
           /\ last_dialogue_state.slots = tn_slots

\* a prompt is pending and the stored dialogue state holds what the prompt
\* and live() have made of it: the aged context verify_intent and the
\* verify_intent# slots
DialogueStateSlotChangedReached ==
    /\ PromptPending /\ tn_pc = "ready"
    /\ "verify_intent" \in DOMAIN last_dialogue_state.contexts
    /\ last_dialogue_state.contexts["verify_intent"].lived = 1
    /\ "verify_intent#dialogue_state" \in DOMAIN last_dialogue_state.slots

\* C27: the intent filter every element of the pipeline is run with is a
\* subset of the intent filter run was called with, also after a
\* FILTER_TOPK element has narrowed it
ElementFilterWithinPipelineFilter ==
    pl_intent_filter # <<>> =>
        \A k \in DOMAIN pl_calls : pl_calls[k].intent_filter \subseteq Unnarrowed

\* the same for the elements that are run before a FILTER_TOPK element has
\* taken effect
ElementFilterWithinUntilNarrowed ==
    pl_intent_filter # <<>> =>
        \A k \in DOMAIN pl_calls :
            (\A j \in FilterCalls : j >= k) => pl_calls[k].intent_filter = Unnarrowed

\* run was called with the filter [ok.yes]; after the FILTER_TOPK element an
\* element was run with an intent that shares the expression of ok.yes and
\* is not in the filter
ElementFilterWidenedReached ==
    /\ pl_pc = "done"
    /\ pl_intent_filter = Some(Some({"ok.yes"}))
    /\ \E k \in DOMAIN pl_calls :
          /\ \E j \in FilterCalls : j < k
          /\ "ok.yes" \in pl_calls[k].intent_filter
          /\ pl_calls[k].intent_filter \ Unnarrowed # {}

\* the confidence threshold of the result is a number
ThresholdDefined == PipelineResult.confidence_threshold # NaN

\* C28: for every pipeline and every input the confidence threshold that
\* PipelineNLU.run returns is a defined number: 1.0 when a perfect match
\* was set, otherwise the mean of the thresholds of the ADD_SCORES elements,
\* of which at least one has contributed
ThresholdAlwaysDefined ==
    pl_pc = "done" =>
        /\ ThresholdDefined
        /\ IF PerfectCalls # {}
           THEN PipelineResult.confidence_threshold = One
           ELSE AddCalls # {} /\ PipelineResult.confidence_threshold = MeanThreshold

\* C28 as the code has it: the threshold is 1.0 when a perfect match was
\* set, otherwise the mean of the thresholds of the ADD_SCORES elements when
\* at least one has contributed, and nan when none has
ThresholdDefinedIffContributed ==
    pl_pc = "done" =>
        IF PerfectCalls # {}
        THEN PipelineResult.confidence_threshold = One
        ELSE IF AddCalls # {}
             THEN ThresholdDefined /\ PipelineResult.confidence_threshold = MeanThreshold
             ELSE ~ThresholdDefined

\* a pipeline without an element that adds scores has returned without a
\* perfect match: the threshold is nan
ThresholdDefinedIffContributedWitness ==
    /\ pl_pc = "done"
    /\ PerfectCalls = {} /\ AddCalls = {}
    /\ Len(pl_calls) = 2
    /\ ~ThresholdDefined

\* the threshold is the mean of the thresholds of two elements
ThresholdMeanOfTwoReached ==
    /\ pl_pc = "done"
    /\ PerfectCalls = {} /\ Cardinality(AddCalls) = 2
    /\ ThresholdDefined
    /\ PipelineResult.confidence_threshold # One

\* the intents whose phrase expression the NLU of the run has scored
ScoredByNLU ==
    IF iu_nlu_res = Nothing THEN {}
    ELSE {id \in iu_matchable_intents :
             /\ IsPhraseIntent(Intents[id])
             /\ Intents[id].nl_trigger.expression.id \in
                   RefIdsOf(Get(Get(iu_result).nlu_result).expression_ranking)}

\* C29: the intent ranking DefaultIU.run returns holds exactly one entry for
\* every matchable intent and no other entry, whatever the kind of input; a
\* matchable intent whose expression the NLU has not scored, or that has no
\* phrase trigger, has the score 1.0 when its score is a PerfectScore and the
\* score 0 otherwise
RankingHasEachMatchableOnce ==
    iu_pc = "done" =>
        /\ Len(IURanking) = Cardinality(iu_matchable_intents)
        /\ \A id \in iu_matchable_intents :
              Cardinality({k \in DOMAIN IURanking : IURanking[k].ref_id = id}) = 1
        /\ \A k \in DOMAIN IURanking : IURanking[k].ref_id \in iu_matchable_intents
        /\ \A k \in DOMAIN IURanking :
              IURanking[k].ref_id \notin ScoredByNLU =>
                 IURanking[k].score =
                    (IF IURanking[k].ref_id \in PerfectIntents THEN One ELSE 0)

\* a natural-language input without a perfect intent: the NLU has scored the
\* expression of "hello" and not the one of "ok.yes", and "fallback" has no
\* phrase trigger; the ranking holds "hello" with its score and the other
\* two with 0
RankingHasEachMatchableOnceWitness ==
    /\ iu_pc = "done"
    /\ IUInput.type = "NLInput"
    /\ PerfectIntents = {}
    /\ "hello" \in ScoredByNLU
    /\ {"ok.yes", "fallback"} \subseteq iu_matchable_intents \ ScoredByNLU
    /\ RankingScore("hello", One) \in Range(IURanking)
    /\ RankingScore("ok.yes", 0) \in Range(IURanking)
    /\ RankingScore("fallback", 0) \in Range(IURanking)

\* a selection input: every matchable intent is ranked with 1.0
SelectionRankedPerfectReached ==
    /\ iu_pc = "done"
    /\ IUInput.type = "SelectionInput"
    /\ Len(IURanking) = 2
    /\ \A k \in DOMAIN IURanking : IURanking[k].score = One

\* the spans of two entities have a position of the text in common
SpansIntersect(e1, e2) == e1.start < e2.end /\ e2.start < e1.end

\* the input entities i and j compete: their spans intersect and they have
\* equal (entity, value)
Competes(i, j) ==
    /\ i # j
    /\ SpansIntersect(ra_entities[i], ra_entities[j])
    /\ SameEntityValue(ra_entities[i], ra_entities[j])

\* no two entities of the result compete, and an entity without competitor
\* in the input is kept
ResultUnambiguous ==
    /\ \A a, b \in DOMAIN ra_res :
          (a # b /\ SameEntityValue(ra_res[a], ra_res[b]))
             => ~SpansIntersect(ra_res[a], ra_res[b])
    /\ \A i \in DOMAIN ra_entities :
          (\A j \in DOMAIN ra_entities : ~Competes(i, j)) => Kept(i)

\* C30: in the result of remove_ambiguous_entities no two entities with
\* equal (entity, value) overlap, every entity that overlaps no input entity
\* of equal (entity, value) is kept, and every removed entity overlaps an
\* entity of equal (entity, value) that is kept
RemovedOnlyForKept ==
    ra_pc = "done" =>
        /\ ResultUnambiguous
        /\ \A i \in DOMAIN ra_entities :
              ~Kept(i) => \E j \in DOMAIN ra_entities : Competes(i, j) /\ Kept(j)

\* C30 as the code has it: as stated, but a removed entity overlaps an input
\* entity of equal (entity, value) that is longer, or as long and later in
\* the input, whether or not that entity is kept
RemovedForLongerOrLater ==
    ra_pc = "done" =>
        /\ ResultUnambiguous
        /\ \A i \in DOMAIN ra_entities :
              ~Kept(i) =>
                 \E j \in DOMAIN ra_entities :
                    /\ Competes(i, j)
                    /\ \/ Len(ra_entities[j].text) > Len(ra_entities[i].text)
                       \/ Len(ra_entities[j].text) = Len(ra_entities[i].text) /\ j > i

\* the first entity is removed for the second, longer one, which is removed
\* for the third, as long and later; the first and the third do not overlap,
\* and the result holds the third only
RemovedForLongerOrLaterWitness ==
    /\ ra_pc = "done"
    /\ Len(ra_entities) = 3
    /\ Competes(1, 2) /\ Competes(2, 3) /\ ~Competes(1, 3)
    /\ SameEntityValue(ra_entities[1], ra_entities[3])
    /\ ~Kept(1) /\ ~Kept(2) /\ Kept(3)
    /\ ra_res = <<ra_entities[3]>>

====
